---------------------------- MODULE Spec2Model ----------------------------
(***************************************************************************)
(* claude-shell (aish): the four-tier context engine (Memory, Topics,      *)
(* Window, Shell state), the ContextManager that composes them, and the    *)
(* daemon's query/command handlers.                                        *)
(*                                                                         *)
(* Strings are sequences of UTF-16 code units (what a JavaScript string    *)
(* is).  Object state is kept in records and every method is an operator   *)
(* from the record before the call to the record after it (plus what the   *)
(* method returns), so that the same method can be applied by several      *)
(* specifications: SpecWin drives the Window class alone, SpecCM drives    *)
(* the ContextManager through its public methods, Spec is the daemon.      *)
(***************************************************************************)
EXTENDS Integers, Sequences, FiniteSets, TLC

VARIABLES
    cm,       \* the ContextManager (Memory, Window, Topics, turnCount, sessionDirty)
    clock,    \* the clock Date.now() reads
    calls,    \* history: how many calls were made
    added,    \* history: how many Window.addTurn calls were made
    removed,  \* history: how many turns trimIfNeeded and clear took out
    half,     \* TRUE between the two Window.addTurn calls of one addTurn
    last,     \* history: the last call or event and what it returned
    cm2,      \* the ContextManager of the twin run (other commandContext values)
    alive,    \* FALSE once the daemon process has exited
    currentSessionId,  \* daemon.ts: currentSessionId
    queryInProgress,   \* daemon.ts: queryInProgress
    activeAbort,       \* daemon.ts: activeAbort (the id of the query that owns it)
    socks,    \* the connections in the order accepted: "open" or "closed"
    inflight, \* the queries whose backend call has started and not finished
    host,     \* the machine: daemon.sock, daemon.pid and the daemon processes
    shell,    \* the interactive shell (AishShell)
    extracting \* the background extraction passes that have not finished

vars == <<cm, clock, calls, added, removed, half, last, cm2, alive,
          currentSessionId, queryInProgress, activeAbort, socks, inflight,
          host, shell, extracting>>

\* the variables outside the daemon process and its context engine
envVars == <<host, shell, extracting>>

\* what a variable holds in a specification that does not model its part
Unused == << >>

\* the variables of the daemon
daemonVars == <<cm2, alive, currentSessionId, queryInProgress, activeAbort,
                socks, inflight>>

(***************************************************************************)
(* Bounds of the model.                                                    *)
(***************************************************************************)
\* largest window budget (maxTokens) a Window is constructed with
MaxBudget == 3
\* number of Window.addTurn calls a run of SpecWin makes
MaxTurns == 6
\* number of method calls a run of SpecCM makes
MaxCalls == 4
\* largest value of the clock
MaxClock == 1

(***************************************************************************)
(* Texts.                                                                  *)
(***************************************************************************)
\* "" / "a" / "abc" / one Hangul syllable / two Hangul syllables
T_empty == << >>
T_a == <<97>>
T_abc == <<97, 98, 99>>
T_ga == <<44032>>
T_gaga == <<44032, 44032>>

\* the message texts and the assistant text fragments the model draws from
UserTexts == {T_abc, T_ga, T_gaga}
AsstTexts == {T_empty, T_abc, T_gaga}

Max(a, b) == IF a >= b THEN a ELSE b

(***************************************************************************)
(* Token estimator (tokens.ts).  The running total is a double.  The       *)
(* totals the loop can reach are kept exactly, as [tokens, err] for the    *)
(* number tokens/20 + err * 2^-52/5: a run character costs 1/4 = 5/20,     *)
(* Hangul/CJK/other 1.5 = 30/20, code punctuation 0.5 = 10/20, all of them *)
(* doubles, and Kana costs the double nearest to 1.2, which is             *)
(* 24/20 - 2^-52/5.  An addition is the exact sum rounded to the nearest   *)
(* double, ties to the even significand.                                   *)
(***************************************************************************)
isHangul(c) ==
    \/ (c >= 44032 /\ c <= 55215)
    \/ (c >= 12593 /\ c <= 12643)
    \/ (c >= 4352 /\ c <= 4607)

isCJK(c) ==
    \/ (c >= 19968 /\ c <= 40959)
    \/ (c >= 13312 /\ c <= 19903)
    \/ (c >= 63744 /\ c <= 64255)

isKana(c) == (c >= 12352 /\ c <= 12447) \/ (c >= 12448 /\ c <= 12543)

isAsciiAlnum(c) ==
    \/ (c >= 48 /\ c <= 57)
    \/ (c >= 65 /\ c <= 90)
    \/ (c >= 97 /\ c <= 122)

isWhitespace(c) == c = 32 \/ c = 10 \/ c = 13 \/ c = 9

CODE_PUNCT ==
    {123, 125, 91, 93, 40, 41, 59, 58, 61, 60, 62, 47, 42, 43, 45, 38, 124,
     33, 63, 46, 44, 39, 34, 96, 64, 35, 37, 94, 126, 92}

\* String.prototype.codePointAt(i), i counted from 1
codePointAt(text, i) ==
    LET hi == text[i]
    IN  IF hi >= 55296 /\ hi <= 56319 /\ i < Len(text)
           /\ text[i + 1] >= 56320 /\ text[i + 1] <= 57343
        THEN (hi - 55296) * 1024 + (text[i + 1] - 56320) + 65536
        ELSE hi

\* the doubles 1.5, 0.5, n / 4 and 1.2
Exact(twentieths) == [tokens |-> twentieths, err |-> 0]
KANA_COST == [tokens |-> 24, err |-> -1]

\* the exponent of the double x >= 1: the k with 2^k <= x < 2^(k+1)
RECURSIVE exponent(_, _)
exponent(x, k) ==
    IF x.tokens > 20 * 2^(k + 1) \/ (x.tokens = 20 * 2^(k + 1) /\ x.err >= 0)
    THEN exponent(x, k + 1)
    ELSE k

\* the double of exponent k nearest to the number x, which is r units of
\* err above the double below it; the doubles of exponent k are m units apart
nearest(x, k, r, m) ==
    IF 2 * r < m THEN [x EXCEPT !.err = @ - r]
    ELSE IF 2 * r > m THEN [x EXCEPT !.err = @ - r + m]
    ELSE IF (x.err - r) % 2^(k + 1) = 0 THEN [x EXCEPT !.err = @ - r]
    ELSE [x EXCEPT !.err = @ - r + m]

\* The doubles of exponent k are the multiples of 2^(k-52), that is of
\* 5 * 2^k units of err; x is tokens * 2^50 + err units, and 2^50 is 4
\* modulo 5.
roundAt(x, k) ==
    nearest(x, k,
            CHOOSE n \in 0..(5 * 2^k - 1) :
                /\ n % 5 = (4 * x.tokens + x.err) % 5
                /\ n % 2^k = x.err % 2^k,
            5 * 2^k)

\* the double nearest to the number x (a sum of two totals), ties to the
\* even significand
roundToDouble(x) ==
    IF x.err = 0 /\ x.tokens % 5 = 0 THEN x ELSE roundAt(x, exponent(x, 0))

\* a + b
plus(a, b) == roundToDouble([tokens |-> a.tokens + b.tokens, err |-> a.err + b.err])

\* Math.ceil(x)
Math_ceil(x) ==
    IF x.err > 0 THEN x.tokens \div 20 + 1
    ELSE (x.tokens + 19) \div 20

\* tokens += a for each a of addends, in order
RECURSIVE plusEach(_, _)
plusEach(tokens, addends) ==
    IF addends = << >> THEN tokens
    ELSE plusEach(plus(tokens, Head(addends)), Tail(addends))

\* what the statement "if (run > 0) { tokens += run / 4; run = 0; }" adds
RunCost(run) == IF run > 0 THEN <<Exact(5 * run)>> ELSE << >>

\* flushRuns(): both pending runs are added to the total
flushRuns(tokens, asciiRun, wsRun) ==
    plusEach(tokens, RunCost(asciiRun) \o RunCost(wsRun))

\* the branch of the loop body taken for the code point c
branchOf(c) ==
    CASE c > 65535 -> "supplementary"
      [] c <= 65535 /\ (isHangul(c) \/ isCJK(c)) -> "ideograph"
      [] c <= 65535 /\ isKana(c) -> "kana"
      [] isAsciiAlnum(c) -> "alnum"
      [] isWhitespace(c) -> "whitespace"
      [] c \in CODE_PUNCT -> "punct"
      [] OTHER -> "other"

\* the runs a branch flushes, then the cost it adds
addends(branch, asciiRun, wsRun) ==
    (CASE branch = "alnum" -> RunCost(wsRun)
       [] branch = "whitespace" -> RunCost(asciiRun)
       [] OTHER -> RunCost(asciiRun) \o RunCost(wsRun))
    \o (CASE branch \in {"alnum", "whitespace"} -> << >>
           [] branch = "kana" -> <<KANA_COST>>
           [] branch = "punct" -> <<Exact(10)>>
           [] OTHER -> <<Exact(30)>>)

\* the loop body in a branch
stepIn(branch, st) ==
    [i |-> IF branch = "supplementary" THEN st.i + 2 ELSE st.i + 1,
     tokens |-> plusEach(st.tokens, addends(branch, st.asciiRun, st.wsRun)),
     asciiRun |-> IF branch = "alnum" THEN st.asciiRun + 1 ELSE 0,
     wsRun |-> IF branch = "whitespace" THEN st.wsRun + 1 ELSE 0]

\* one iteration of the for loop on the loop state [i, tokens, asciiRun, wsRun]
estimateStep(text, st) == stepIn(branchOf(codePointAt(text, st.i)), st)

\* the for loop, run from state st up to (not including) index stop
RECURSIVE estimateLoop(_, _, _)
estimateLoop(text, st, stop) ==
    IF st.i > Len(text) \/ st.i >= stop THEN st
    ELSE estimateLoop(text, estimateStep(text, st), stop)

\* the whole for loop, run in stretches of 24 characters (one recursion as
\* deep as the text is long does not fit TLC's stack)
RECURSIVE estimateFrom(_, _)
estimateFrom(text, st) ==
    IF st.i > Len(text) THEN st
    ELSE estimateFrom(text, estimateLoop(text, st, st.i + 24))

\* Math.ceil of the total
estimateTokens(text) ==
    IF Len(text) = 0 THEN 0
    ELSE LET st == estimateFrom(text, [i |-> 1, tokens |-> Exact(0),
                                       asciiRun |-> 0, wsRun |-> 0])
         IN  Math_ceil(flushRuns(st.tokens, st.asciiRun, st.wsRun))

(***************************************************************************)
(* Window (window.ts).  A Turn is [role, content, tokens]; its ts field    *)
(* (Date.now() at creation) is never read by the program and is left out.  *)
(* currentTokens is the running total the class keeps beside the list.     *)
(***************************************************************************)
Window_new(maxTokens) ==
    [turns |-> << >>, maxTokens |-> maxTokens, currentTokens |-> 0]

Window_addTurn(w, role, content) ==
    LET tokens == estimateTokens(content)
        turn == [role |-> role, content |-> content, tokens |-> tokens]
    IN  [w EXCEPT !.turns = Append(@, turn),
                  !.currentTokens = @ + tokens]

\* the eviction loop: st is [window, evicted]
RECURSIVE trimLoop(_)
trimLoop(st) ==
    LET w == st.window
    IN  IF w.currentTokens > w.maxTokens /\ Len(w.turns) > 2
        THEN LET u == w.turns[1]
                 a == w.turns[2]
             IN  trimLoop([window |->
                              [w EXCEPT !.turns = SubSeq(@, 3, Len(@)),
                                        !.currentTokens = @ - u.tokens - a.tokens],
                           evicted |-> st.evicted \o <<u, a>>])
        ELSE st

\* a trimIfNeeded() that evicts at most one pair per call ("if" for "while")
Window_trimIfNeeded_onePair(w) ==
    IF w.currentTokens > w.maxTokens /\ Len(w.turns) > 2
    THEN [window |-> [w EXCEPT !.turns = SubSeq(@, 3, Len(@)),
                               !.currentTokens =
                                   Max(0, @ - w.turns[1].tokens - w.turns[2].tokens)],
          evicted |-> <<w.turns[1], w.turns[2]>>]
    ELSE [window |-> w, evicted |-> << >>]

\* a trimIfNeeded() that evicts single turns instead of pairs
RECURSIVE trimLoopSingle(_)
trimLoopSingle(st) ==
    LET w == st.window
    IN  IF w.currentTokens > w.maxTokens /\ Len(w.turns) > 2
        THEN trimLoopSingle([window |->
                                [w EXCEPT !.turns = Tail(@),
                                          !.currentTokens = @ - w.turns[1].tokens],
                             evicted |-> Append(st.evicted, w.turns[1])])
        ELSE st

Window_trimIfNeeded_single(w) ==
    trimLoopSingle([window |-> w, evicted |-> << >>])

\* a trimIfNeeded() that stops at two pairs ("> 4" for "> 2")
RECURSIVE trimLoopKeepTwo(_)
trimLoopKeepTwo(st) ==
    LET w == st.window
    IN  IF w.currentTokens > w.maxTokens /\ Len(w.turns) > 4
        THEN trimLoopKeepTwo([window |->
                                 [w EXCEPT !.turns = SubSeq(@, 3, Len(@)),
                                           !.currentTokens =
                                               @ - w.turns[1].tokens - w.turns[2].tokens],
                              evicted |-> st.evicted \o <<w.turns[1], w.turns[2]>>])
        ELSE st

Window_trimIfNeeded_keepTwo(w) ==
    trimLoopKeepTwo([window |-> w, evicted |-> << >>])

\* a trimIfNeeded() that evicts the newest pairs instead of the oldest
RECURSIVE trimLoopNewest(_)
trimLoopNewest(st) ==
    LET w == st.window
        n == Len(w.turns)
    IN  IF w.currentTokens > w.maxTokens /\ n > 2
        THEN trimLoopNewest([window |->
                                [w EXCEPT !.turns = SubSeq(@, 1, n - 2),
                                          !.currentTokens =
                                              @ - w.turns[n - 1].tokens - w.turns[n].tokens],
                             evicted |-> <<w.turns[n - 1], w.turns[n]>> \o st.evicted])
        ELSE st

Window_trimIfNeeded_newest(w) ==
    trimLoopNewest([window |-> w, evicted |-> << >>])

\* trimIfNeeded(): returns the window after the call and the evicted turns
Window_trimIfNeeded(w) ==
    LET st == trimLoop([window |-> w, evicted |-> << >>])
    IN  [window |-> [st.window EXCEPT !.currentTokens = Max(0, @)],
         evicted |-> st.evicted]

Window_getTurns(w) == w.turns

Window_count(w) == Len(w.turns) \div 2

Window_isEmpty(w) == Len(w.turns) = 0

\* a clear() that keeps the running total
Window_clear_keepTotal(w) == [w EXCEPT !.turns = << >>]

Window_clear(w) == [w EXCEPT !.turns = << >>, !.currentTokens = 0]

Window_estimateTokens(w) == w.currentTokens


(***************************************************************************)
(* String helpers (JavaScript String methods on code-unit sequences).      *)
(***************************************************************************)
Min(a, b) == IF a <= b THEN a ELSE b

\* s.slice(0, n)
Slice(s, n) == SubSeq(s, 1, Min(n, Len(s)))

\* s.replace(/\n/g, " ")
ReplaceNl(s) == [i \in 1..Len(s) |-> IF s[i] = 10 THEN 32 ELSE s[i]]

\* parts.join(sep)
RECURSIVE Join(_, _)
Join(parts, sep) ==
    IF Len(parts) = 0 THEN << >>
    ELSE IF Len(parts) = 1 THEN parts[1]
    ELSE parts[1] \o sep \o Join(Tail(parts), sep)

\* String(n) of a non-negative integer
RECURSIVE Digits(_)
Digits(n) == IF n < 10 THEN <<48 + n>> ELSE Digits(n \div 10) \o <<48 + (n % 10)>>

\* s.toLowerCase() (the model's texts hold no cased letter outside ASCII)
toLowerCase(s) == [i \in 1..Len(s) |-> IF s[i] >= 65 /\ s[i] <= 90 THEN s[i] + 32 ELSE s[i]]

\* s.includes(pat)
includes(s, pat) ==
    \E i \in 1..(Len(s) - Len(pat) + 1) : SubSeq(s, i, i + Len(pat) - 1) = pat

\* list.includes(x)
Contains(list, x) == \E i \in 1..Len(list) : list[i] = x

\* the \s class of a JavaScript regular expression
isRegexSpace(c) ==
    \/ c \in {9, 10, 11, 12, 13, 32, 160, 5760, 8232, 8233, 8239, 8287, 12288, 65279}
    \/ (c >= 8192 /\ c <= 8202)

\* s.split(/\s+/): the maximal runs of non-space characters (the empty strings
\* split() yields at a leading or trailing space are kept out: every caller
\* filters on a positive length)
RECURSIVE SplitSpaces(_, _)
SplitSpaces(s, cur) ==
    IF Len(s) = 0
    THEN (IF Len(cur) > 0 THEN <<cur>> ELSE << >>)
    ELSE IF isRegexSpace(s[1])
    THEN (IF Len(cur) > 0 THEN <<cur>> ELSE << >>) \o SplitSpaces(Tail(s), << >>)
    ELSE SplitSpaces(Tail(s), Append(cur, s[1]))

\* string literals of the sources
S_Q == <<81, 58, 32>>
S_toA == <<46, 46, 46, 32, 8594, 32, 65, 58, 32>>
S_dots == <<46, 46, 46>>
S_bar == <<32, 124, 32>>
S_topicDash == <<116, 111, 112, 105, 99, 45>>
S_compactDash == <<99, 111, 109, 112, 97, 99, 116, 45>>
S_dashSp == <<45, 32>>
S_colonSp == <<58, 32>>
S_spParen == <<32, 40>>
S_paren == <<41>>
S_nl == <<10>>
S_nlnl == <<10, 10>>
S_dash == <<45>>
S_colon == <<58>>
S_empty == <<40, 101, 109, 112, 116, 121, 41>>
S_noTopics ==
    <<40, 110, 111, 32, 112, 114, 101, 118, 105, 111, 117, 115, 32, 116, 111,
      112, 105, 99, 115, 41>>
S_hMemory == <<91, 77, 101, 109, 111, 114, 121, 93, 10>>
S_hTopics ==
    <<91, 80, 114, 101, 118, 105, 111, 117, 115, 32, 84, 111, 112, 105, 99,
      115, 93, 10>>
S_hShell == <<91, 83, 104, 101, 108, 108, 32, 67, 111, 110, 116, 101, 120, 116, 93, 10>>
S_hSummary ==
    <<91, 82, 101, 99, 101, 110, 116, 32, 67, 111, 110, 118, 101, 114, 115, 97,
      116, 105, 111, 110, 32, 83, 117, 109, 109, 97, 114, 121, 93, 10>>
S_hCommandOutput ==
    <<10, 10, 91, 82, 101, 99, 101, 110, 116, 32, 67, 111, 109, 109, 97, 110,
      100, 32, 79, 117, 116, 112, 117, 116, 93, 10>>
S_User == <<85, 115, 101, 114, 58, 32>>
S_Assistant == <<10, 65, 115, 115, 105, 115, 116, 97, 110, 116, 58, 32>>
S_sep == <<10, 45, 45, 45, 10>>
S_Conventions == <<67, 111, 110, 118, 101, 110, 116, 105, 111, 110, 115, 58, 32>>
S_Decisions == <<68, 101, 99, 105, 115, 105, 111, 110, 115, 58, 32>>
S_Recent == <<82, 101, 99, 101, 110, 116, 58, 32>>
S_semi == <<59, 32>>
S_comma == <<44, 32>>
S_cwd == <<99, 119, 100, 58, 32>>
S_recent == <<114, 101, 99, 101, 110, 116, 58, 32>>
S_lastExit == <<108, 97, 115, 116, 32, 101, 120, 105, 116, 58, 32>>
S_output == <<111, 117, 116, 112, 117, 116, 58, 32>>
S_am == <<50724, 51204, 32>>
S_pm == <<50724, 54980, 32>>
K_convention == <<99, 111, 110, 118, 101, 110, 116, 105, 111, 110>>
K_rule == <<114, 117, 108, 101>>
K_always == <<97, 108, 119, 97, 121, 115>>
K_never == <<110, 101, 118, 101, 114>>
K_decided == <<100, 101, 99, 105, 100, 101, 100>>
K_decision == <<100, 101, 99, 105, 115, 105, 111, 110>>
K_chose == <<99, 104, 111, 115, 101>>

\* an optional value: << >> is undefined / null, <<v>> is the value v
None == << >>
Some(v) == <<v>>

(***************************************************************************)
(* Window.getRecentSummary (window.ts).                                    *)
(***************************************************************************)
RECURSIVE recentLoop(_, _, _, _)
recentLoop(turns, i, pairs, maxPairs) ==
    IF i <= Len(turns) /\ Len(pairs) < maxPairs
    THEN IF i + 1 <= Len(turns)
         THEN recentLoop(turns, i + 2,
                         Append(pairs, S_User \o Slice(turns[i].content, 100)
                                       \o S_Assistant \o Slice(turns[i + 1].content, 150)),
                         maxPairs)
         ELSE recentLoop(turns, i + 1, pairs, maxPairs)
    ELSE pairs

Window_getRecentSummary(w, maxPairs) ==
    Join(recentLoop(w.turns, Max(0, Len(w.turns) - maxPairs * 2) + 1, << >>, maxPairs),
         S_sep)

(***************************************************************************)
(* TopicManager (topic.ts).  A Topic is [name, summary, ts, tokens].  file *)
(* is topics.json: whether it exists, what JSON.parse makes of it (shape    *)
(* "list": an array of objects, "object": a value that cannot be iterated   *)
(* such as {} or null, "garbage": not JSON) and, for a list, its elements.  *)
(* A field that an element of the file does not have reads as Undefined.    *)
(* A write that fails (writeFileSync throws) is the argument ok = FALSE of  *)
(* the mutators.                                                            *)
(***************************************************************************)
MAX_TOPICS == 10

\* the value of a property that is not there
Undefined == <<-1>>

Topic_new ==
    [topics |-> << >>, version |-> 0, cachedPrompt |-> None,
     cachedPromptVersion |-> -1,
     file |-> [exists |-> FALSE, shape |-> "list", topics |-> << >>]]

\* save(): a failed write throws before the version is bumped
Topic_save(tp, ok) ==
    IF ok
    THEN [store |-> [tp EXCEPT !.file = [exists |-> TRUE, shape |-> "list",
                                         topics |-> tp.topics],
                               !.version = @ + 1],
          threw |-> FALSE]
    ELSE [store |-> tp, threw |-> TRUE]

\* get(name): the index of the first topic of that name ignoring case, or 0
Topic_findIndex(tp, name) ==
    IF \E i \in 1..Len(tp.topics) : toLowerCase(tp.topics[i].name) = toLowerCase(name)
    THEN CHOOSE i \in 1..Len(tp.topics) :
            /\ toLowerCase(tp.topics[i].name) = toLowerCase(name)
            /\ \A j \in 1..(i - 1) : toLowerCase(tp.topics[j].name) # toLowerCase(name)
    ELSE 0

Topic_get(tp, name) ==
    IF Topic_findIndex(tp, name) = 0 THEN None
    ELSE Some(tp.topics[Topic_findIndex(tp, name)])

\* t.name.toLowerCase() throws a TypeError on a topic without a name, when
\* the search reaches it before it reaches a match
Topic_findThrows(tp, name) ==
    \E i \in 1..Len(tp.topics) :
        /\ tp.topics[i].name = Undefined
        /\ \A j \in 1..(i - 1) : toLowerCase(tp.topics[j].name) # toLowerCase(name)

\* a load() that keeps the costs it finds in the file
Topic_load_keep(file, ok) ==
    LET loaded == [Topic_new EXCEPT !.topics = file.topics, !.file = file]
        reset == [Topic_new EXCEPT !.file = file]
    IN  IF ~file.exists \/ file.shape # "list" THEN reset
        ELSE IF \E i \in 1..Len(file.topics) : file.topics[i].summary = Undefined
        THEN reset
        ELSE loaded

\* load(), run by the constructor over the file: the catch block resets the
\* list when JSON.parse, the for-of, estimateTokens(undefined) or the save of
\* the migrated list throws
Topic_load(file, ok) ==
    LET fresh == [i \in 1..Len(file.topics) |->
                     [file.topics[i] EXCEPT !.tokens = estimateTokens(file.topics[i].summary)]]
        loaded == [Topic_new EXCEPT !.topics = fresh, !.file = file]
        reset == [Topic_new EXCEPT !.file = file]
    IN  IF ~file.exists THEN reset
        ELSE IF file.shape # "list" THEN reset
        ELSE IF \E i \in 1..Len(file.topics) : file.topics[i].summary = Undefined
        THEN reset
        ELSE IF fresh # file.topics
        THEN (IF ok THEN Topic_save(loaded, TRUE).store ELSE reset)
        ELSE loaded

isNameChar(c) ==
    \/ (c >= 97 /\ c <= 122) \/ (c >= 65 /\ c <= 90)
    \/ (c >= 44032 /\ c <= 55203)
    \/ (c >= 48 /\ c <= 57)
    \/ isRegexSpace(c)

isLongWord(w) == Len(w) > 2

\* generateName(turns); now is the value of Date.now()
Topic_generateName(turns, now) ==
    IF \A i \in 1..Len(turns) : turns[i].role # "user"
    THEN S_topicDash \o Digits(now)
    ELSE LET firstUser == turns[CHOOSE i \in 1..Len(turns) :
                                   /\ turns[i].role = "user"
                                   /\ \A j \in 1..(i - 1) : turns[j].role # "user"]
             words == Slice(SelectSeq(SplitSpaces(SelectSeq(firstUser.content, isNameChar),
                                                  << >>),
                                      isLongWord), 3)
         IN  IF Len(words) > 0 THEN Join(words, S_dash)
             ELSE S_topicDash \o Digits(now)

\* the "Q: ... -> A: ..." fragments of the complete pairs of turns
RECURSIVE summaryParts(_, _)
summaryParts(turns, i) ==
    IF i > Len(turns) THEN << >>
    ELSE (IF i + 1 <= Len(turns)
          THEN <<S_Q \o ReplaceNl(Slice(turns[i].content, 60)) \o S_toA
                 \o ReplaceNl(Slice(turns[i + 1].content, 80)) \o S_dots>>
          ELSE << >>) \o summaryParts(turns, i + 2)

\* an eviction loop that evicts nothing
evictOldest_never(topics) == topics

\* the while loop that evicts the oldest topics over the limit
RECURSIVE evictOldest(_)
evictOldest(topics) ==
    IF Len(topics) > MAX_TOPICS THEN evictOldest(Tail(topics)) ELSE topics

\* addFromTurns(turns, name?): name is an optional string
Topic_addFromTurns(tp, turns, name, now, ok) ==
    LET topicName == IF name = None THEN Topic_generateName(turns, now) ELSE name[1]
        summary == Join(summaryParts(turns, 1), S_bar)
        topic == [name |-> topicName, summary |-> summary, ts |-> now,
                  tokens |-> estimateTokens(summary)]
        pushed == [tp EXCEPT !.topics = evictOldest(Append(@, topic))]
        saved == Topic_save(pushed, ok)
    IN  [store |-> saved.store, threw |-> saved.threw, topic |-> topic]

\* addManual(name, summary): replaces the topic of that name ignoring case
\* where it stands, or appends
Topic_addManual(tp, name, summary, now, ok) ==
    LET topic == [name |-> name, summary |-> summary, ts |-> now,
                  tokens |-> estimateTokens(summary)]
        idx == Topic_findIndex(tp, name)
        put == IF idx > 0 THEN [tp EXCEPT !.topics[idx] = topic]
               ELSE [tp EXCEPT !.topics = Append(@, topic)]
        saved == Topic_save([put EXCEPT !.topics = evictOldest(@)], ok)
    IN  IF Topic_findThrows(tp, name)
        THEN [store |-> tp, threw |-> TRUE, topic |-> topic]
        ELSE [store |-> saved.store, threw |-> saved.threw, topic |-> topic]

\* remove(name): the first topic of that name ignoring case is taken out
Topic_remove(tp, name, ok) ==
    LET idx == Topic_findIndex(tp, name)
        cut == [tp EXCEPT !.topics = SubSeq(@, 1, idx - 1) \o SubSeq(@, idx + 1, Len(@))]
        saved == Topic_save(cut, ok)
    IN  IF Topic_findThrows(tp, name) THEN [store |-> tp, threw |-> TRUE, found |-> FALSE]
        ELSE IF idx > 0 THEN [store |-> saved.store, threw |-> saved.threw, found |-> TRUE]
        ELSE [store |-> tp, threw |-> FALSE, found |-> FALSE]

\* clear()
Topic_clear(tp, ok) == Topic_save([tp EXCEPT !.topics = << >>], ok)

Topic_count(tp) == Len(tp.topics)

\* Date.toLocaleTimeString("ko-KR", hour and minute 2-digit) of a UTC clock
TwoDigits(n) == IF n < 10 THEN <<48>> \o Digits(n) ELSE Digits(n)

toLocaleTimeString(ts) ==
    LET h == (ts \div 3600000) % 24
        m == (ts \div 60000) % 60
        h12 == IF h % 12 = 0 THEN 12 ELSE h % 12
    IN  (IF h < 12 THEN S_am ELSE S_pm) \o TwoDigits(h12) \o S_colon \o TwoDigits(m)

\* the unmemoized render of the topic list
Topic_render(topics) ==
    Join([i \in 1..Len(topics) |->
             S_dashSp \o topics[i].name \o S_colonSp \o topics[i].summary
             \o S_spParen \o toLocaleTimeString(topics[i].ts) \o S_paren],
         S_nl)

\* buildPrompt(): returns the prompt and the store with its memo updated
Topic_buildPrompt(tp) ==
    IF Len(tp.topics) = 0
    THEN [store |-> tp, prompt |-> S_noTopics]
    ELSE IF tp.cachedPrompt # None /\ tp.cachedPromptVersion = tp.version
    THEN [store |-> tp, prompt |-> tp.cachedPrompt[1]]
    ELSE [store |-> [tp EXCEPT !.cachedPrompt = Some(Topic_render(tp.topics)),
                               !.cachedPromptVersion = tp.version],
          prompt |-> Topic_render(tp.topics)]


(***************************************************************************)
(* Memory (memory.ts).  store is the MemoryStore; project is the list of   *)
(* its <<key, value>> entries in insertion order; absent is the set of the  *)
(* fields the object does not have (none, unless it was parsed from a file  *)
(* of another shape: {} lacks all four, and so does null or a number, on    *)
(* which every use of a field throws the same TypeError).  file is          *)
(* memory.json: whether it exists, whether it is JSON ("object") or not     *)
(* ("garbage"), and the value it parses to.                                 *)
(***************************************************************************)
MAX_RECENT_WORK == 10

EmptyStore == [project |-> << >>, conventions |-> << >>, decisions |-> << >>,
               recentWork |-> << >>, absent |-> {}]

Memory_new ==
    [store |-> EmptyStore,
     file |-> [exists |-> FALSE, shape |-> "object", store |-> EmptyStore]]

\* load(), run by the constructor: whatever JSON.parse returns is the store
Memory_load(file) ==
    IF file.exists /\ file.shape = "object"
    THEN [store |-> file.store, file |-> file]
    ELSE [store |-> EmptyStore, file |-> file]

Memory_save(m, ok) ==
    IF ok
    THEN [memory |-> [m EXCEPT !.file = [exists |-> TRUE, shape |-> "object",
                                         store |-> m.store]],
          threw |-> FALSE]
    ELSE [memory |-> m, threw |-> TRUE]

isConventionFact(lower) ==
    includes(lower, K_convention) \/ includes(lower, K_rule)
    \/ includes(lower, K_always) \/ includes(lower, K_never)

isDecisionFact(lower) ==
    includes(lower, K_decided) \/ includes(lower, K_decision) \/ includes(lower, K_chose)

\* a remember() that looks for the decision keywords first
Memory_remember_decisionsFirst(m, fact, ok) ==
    LET lower == toLowerCase(fact)
        st == m.store
        st2 == IF isDecisionFact(lower)
               THEN (IF Contains(st.decisions, fact) THEN st
                     ELSE [st EXCEPT !.decisions = Append(@, fact)])
               ELSE IF isConventionFact(lower)
               THEN (IF Contains(st.conventions, fact) THEN st
                     ELSE [st EXCEPT !.conventions = Append(@, fact)])
               ELSE LET pushed == Append(st.recentWork, fact)
                    IN  [st EXCEPT !.recentWork =
                            IF Len(pushed) > MAX_RECENT_WORK THEN Tail(pushed) ELSE pushed]
    IN  Memory_save([m EXCEPT !.store = st2], ok)

\* remember(fact): the list the fact belongs to is read first, and the read
\* throws a TypeError when the store has no such list
Memory_remember(m, fact, ok) ==
    LET lower == toLowerCase(fact)
        st == m.store
        list == IF isConventionFact(lower) THEN "conventions"
                ELSE IF isDecisionFact(lower) THEN "decisions"
                ELSE "recentWork"
        st2 == IF isConventionFact(lower)
               THEN (IF Contains(st.conventions, fact) THEN st
                     ELSE [st EXCEPT !.conventions = Append(@, fact)])
               ELSE IF isDecisionFact(lower)
               THEN (IF Contains(st.decisions, fact) THEN st
                     ELSE [st EXCEPT !.decisions = Append(@, fact)])
               ELSE LET pushed == Append(st.recentWork, fact)
                    IN  [st EXCEPT !.recentWork =
                            IF Len(pushed) > MAX_RECENT_WORK THEN Tail(pushed) ELSE pushed]
    IN  IF list \in st.absent THEN [memory |-> m, threw |-> TRUE]
        ELSE Memory_save([m EXCEPT !.store = st2], ok)

\* Object.assign(target, source) on lists of <<key, value>> entries: the value
\* of a key that is there is replaced where it stands, a new key is appended
RECURSIVE objectAssign(_, _)
objectAssign(target, entries) ==
    IF Len(entries) = 0 THEN target
    ELSE LET e == entries[1]
             put == IF \E i \in 1..Len(target) : target[i][1] = e[1]
                    THEN [i \in 1..Len(target) |->
                             IF target[i][1] = e[1] THEN e ELSE target[i]]
                    ELSE Append(target, e)
         IN  objectAssign(put, Tail(entries))

\* for (const c of items) if (!list.includes(c)) list.push(c)
RECURSIVE pushNew(_, _)
pushNew(list, items) ==
    IF Len(items) = 0 THEN list
    ELSE pushNew(IF Contains(list, items[1]) THEN list ELSE Append(list, items[1]),
                 Tail(items))

\* a trim of the recent list that drops one item at most
shiftWhileOver_once(list) ==
    IF Len(list) > MAX_RECENT_WORK THEN Tail(list) ELSE list

\* while (recentWork.length > MAX_RECENT_WORK) recentWork.shift()
RECURSIVE shiftWhileOver(_)
shiftWhileOver(list) ==
    IF Len(list) > MAX_RECENT_WORK THEN shiftWhileOver(Tail(list)) ELSE list

\* no part of an extraction
NoData ==
    [has |-> {}, project |-> << >>, conventions |-> << >>, decisions |-> << >>,
     recentWork |-> << >>]

\* mergeExtracted(data): data is a Partial<MemoryStore>, has the set of the
\* fields it has.  The four parts run in order; the first use of a list the
\* store does not have throws, with the parts before it done and no save
Memory_mergeExtracted(m, data, ok) ==
    LET s0 == m.store
        t1 == "project" \in data.has /\ "project" \in s0.absent
        s1 == IF "project" \in data.has
              THEN [s0 EXCEPT !.project = objectAssign(@, data.project)] ELSE s0
        t2 == "conventions" \in data.has /\ "conventions" \in s0.absent
              /\ Len(data.conventions) > 0
        s2 == IF "conventions" \in data.has
              THEN [s1 EXCEPT !.conventions = pushNew(@, data.conventions)] ELSE s1
        t3 == "decisions" \in data.has /\ "decisions" \in s0.absent
              /\ Len(data.decisions) > 0
        s3 == IF "decisions" \in data.has
              THEN [s2 EXCEPT !.decisions = pushNew(@, data.decisions)] ELSE s2
        t4 == "recentWork" \in data.has /\ "recentWork" \in s0.absent
        s4 == IF "recentWork" \in data.has
              THEN [s3 EXCEPT !.recentWork = shiftWhileOver(@ \o data.recentWork)]
              ELSE s3
        thrown(s) == [memory |-> [m EXCEPT !.store = s], threw |-> TRUE]
    IN  IF t1 THEN thrown(s0)
        ELSE IF t2 THEN thrown(s1)
        ELSE IF t3 THEN thrown(s2)
        ELSE IF t4 THEN thrown(s3)
        ELSE Memory_save([m EXCEPT !.store = s4], ok)

Memory_clear(m, ok) == Memory_save([m EXCEPT !.store = EmptyStore], ok)

\* buildPrompt() reads all four fields: Object.entries(undefined) and
\* undefined.length throw a TypeError
Memory_buildPromptThrows(m) == m.store.absent # {}

Memory_buildPrompt(m) ==
    LET st == m.store
        parts ==
            (IF Len(st.project) > 0
             THEN <<Join([i \in 1..Len(st.project) |->
                             st.project[i][1] \o S_colonSp \o st.project[i][2]], S_comma)>>
             ELSE << >>)
            \o (IF Len(st.conventions) > 0
                THEN <<S_Conventions \o Join(st.conventions, S_semi)>> ELSE << >>)
            \o (IF Len(st.decisions) > 0
                THEN <<S_Decisions \o Join(st.decisions, S_semi)>> ELSE << >>)
            \o (IF Len(st.recentWork) > 0
                THEN <<S_Recent \o Join(SubSeq(st.recentWork,
                                               Max(1, Len(st.recentWork) - 2),
                                               Len(st.recentWork)), S_semi)>>
                ELSE << >>)
    IN  IF Len(parts) > 0 THEN Join(parts, S_nl) ELSE S_empty

(***************************************************************************)
(* ShellContext (shell.ts).  The shell-state file belongs to the shell     *)
(* integration; what read() returns is an input of every build.            *)
(***************************************************************************)
\* "ABC"
T_ABC == <<65, 66, 67>>
\* "/w"
T_cwd == <<47, 119>>
\* "ls"
T_ls == <<108, 115>>

DEFAULT_STATE ==
    [cwd |-> T_cwd, lastCommands |-> << >>, lastExitCode |-> 0,
     lastOutputPreview |-> << >>]

\* what read() can return: the defaults (file missing or corrupt) or a state
\* the shell integration wrote
ShellStates ==
    {DEFAULT_STATE,
     [cwd |-> T_cwd, lastCommands |-> <<T_ls>>, lastExitCode |-> 1,
      lastOutputPreview |-> T_a]}

\* buildPrompt(overrideCwd?): overrideCwd is an optional string
Shell_buildPrompt(state, overrideCwd) ==
    LET cwd == IF overrideCwd = None THEN state.cwd ELSE overrideCwd[1]
        parts ==
            <<S_cwd \o cwd>>
            \o (IF Len(state.lastCommands) > 0
                THEN <<S_recent \o Join(SubSeq(state.lastCommands,
                                               Max(1, Len(state.lastCommands) - 4),
                                               Len(state.lastCommands)), S_bar)>>
                ELSE << >>)
            \o (IF state.lastExitCode # 0
                THEN <<S_lastExit \o Digits(state.lastExitCode)>> ELSE << >>)
            \o (IF Len(state.lastOutputPreview) > 0
                THEN <<S_output \o Slice(state.lastOutputPreview, 200)>> ELSE << >>)
    IN  Join(parts, S_nl)

(***************************************************************************)
(* ContextManager (manager.ts).  The record holds the three stores it      *)
(* owns, turnCount and sessionDirty.  Methods that write files take io,    *)
(* the number of the write that throws (0: none does), and return threw.   *)
(***************************************************************************)
MEMORY_EXTRACT_INTERVAL == 5

IOs == 0..2

CM_new(windowBudget) ==
    [memory |-> Memory_new, window |-> Window_new(windowBudget), topics |-> Topic_new,
     turnCount |-> 0, sessionDirty |-> FALSE]

\* a buildSystemPrompt() that adds the summary whenever the Window holds turns
CM_buildSystemPrompt_always(c, overrideCwd, sh, includeConversationSummary) ==
    LET memPrompt == Memory_buildPrompt(c.memory)
        tb == Topic_buildPrompt(c.topics)
        shellPrompt == Shell_buildPrompt(sh, overrideCwd)
        recentSummary == Window_getRecentSummary(c.window, 3)
        withSummary == Window_count(c.window) > 0 /\ Len(recentSummary) > 0
        sections ==
            (IF memPrompt # S_empty
             THEN <<[tag |-> "Memory", text |-> S_hMemory \o memPrompt]>> ELSE << >>)
            \o (IF tb.prompt # S_noTopics
                THEN <<[tag |-> "Topics", text |-> S_hTopics \o tb.prompt]>> ELSE << >>)
            \o <<[tag |-> "Shell", text |-> S_hShell \o shellPrompt]>>
            \o (IF withSummary
                THEN <<[tag |-> "Summary", text |-> S_hSummary \o recentSummary]>>
                ELSE << >>)
    IN  [cm |-> [c EXCEPT !.topics = tb.store],
         systemPrompt |-> Join([i \in 1..Len(sections) |-> sections[i].text], S_nlnl),
         sections |-> [i \in 1..Len(sections) |-> sections[i].tag]]

\* buildSystemPrompt(overrideCwd, includeConversationSummary): the prompt, the
\* tags of its sections in order, and the manager (buildPrompt memoizes)
CM_buildSystemPrompt(c, overrideCwd, sh, includeConversationSummary) ==
    LET memPrompt == Memory_buildPrompt(c.memory)
        tb == Topic_buildPrompt(c.topics)
        shellPrompt == Shell_buildPrompt(sh, overrideCwd)
        recentSummary == Window_getRecentSummary(c.window, 3)
        withSummary == includeConversationSummary /\ Window_count(c.window) > 0
                       /\ Len(recentSummary) > 0
        sections ==
            (IF memPrompt # S_empty
             THEN <<[tag |-> "Memory", text |-> S_hMemory \o memPrompt]>> ELSE << >>)
            \o (IF tb.prompt # S_noTopics
                THEN <<[tag |-> "Topics", text |-> S_hTopics \o tb.prompt]>> ELSE << >>)
            \o <<[tag |-> "Shell", text |-> S_hShell \o shellPrompt]>>
            \o (IF withSummary
                THEN <<[tag |-> "Summary", text |-> S_hSummary \o recentSummary]>>
                ELSE << >>)
    IN  [cm |-> [c EXCEPT !.topics = tb.store],
         systemPrompt |-> Join([i \in 1..Len(sections) |-> sections[i].text], S_nlnl),
         sections |-> [i \in 1..Len(sections) |-> sections[i].tag]]

\* a build() that clears the dirty flag before it takes the snapshot
CM_build_clearFirst(c, overrideCwd, sh, now, io) ==
    LET tr == Window_trimIfNeeded(c.window)
        add == Topic_addFromTurns(c.topics, tr.evicted, None, now, io # 1)
        c1 == [c EXCEPT !.window = tr.window]
        c2 == IF Len(tr.evicted) > 0 THEN [c1 EXCEPT !.topics = add.store] ELSE c1
        sp == CM_buildSystemPrompt([c2 EXCEPT !.sessionDirty = FALSE], overrideCwd, sh, FALSE)
    IN  [cm |-> sp.cm, threw |-> FALSE, systemPrompt |-> sp.systemPrompt,
         needsNewSession |-> FALSE, sections |-> sp.sections, evicted |-> tr.evicted]

\* a build() that does not mark the session dirty when it evicts
CM_build_noDirtyOnEvict(c, overrideCwd, sh, now, io) ==
    LET tr == Window_trimIfNeeded(c.window)
        add == Topic_addFromTurns(c.topics, tr.evicted, None, now, io # 1)
        c1 == [c EXCEPT !.window = tr.window]
        c2 == IF Len(tr.evicted) > 0 THEN [c1 EXCEPT !.topics = add.store] ELSE c1
        sp == CM_buildSystemPrompt(c2, overrideCwd, sh, c2.sessionDirty)
    IN  [cm |-> [sp.cm EXCEPT !.sessionDirty = FALSE], threw |-> FALSE,
         systemPrompt |-> sp.systemPrompt, needsNewSession |-> c2.sessionDirty,
         sections |-> sp.sections, evicted |-> tr.evicted]

\* build(overrideCwd?)
CM_build(c, overrideCwd, sh, now, io) ==
    LET tr == Window_trimIfNeeded(c.window)
        add == Topic_addFromTurns(c.topics, tr.evicted, None, now, io # 1)
        c1 == [c EXCEPT !.window = tr.window]
    IN  IF Len(tr.evicted) > 0 /\ add.threw
        THEN [cm |-> [c1 EXCEPT !.topics = add.store], threw |-> TRUE,
              systemPrompt |-> << >>, needsNewSession |-> FALSE, sections |-> << >>,
              evicted |-> tr.evicted]
        ELSE LET c2 == IF Len(tr.evicted) > 0
                       THEN [c1 EXCEPT !.topics = add.store, !.sessionDirty = TRUE]
                       ELSE c1
                 needsNewSession == c2.sessionDirty
                 sp == CM_buildSystemPrompt(c2, overrideCwd, sh, needsNewSession)
             IN  [cm |-> [sp.cm EXCEPT !.sessionDirty = FALSE], threw |-> FALSE,
                  systemPrompt |-> sp.systemPrompt, needsNewSession |-> needsNewSession,
                  sections |-> sp.sections, evicted |-> tr.evicted]

\* addTurn(userMessage, assistantResponse)
CM_addTurn(c, userMessage, assistantResponse) ==
    [c EXCEPT !.window = Window_addTurn(Window_addTurn(@, "user", userMessage),
                                        "assistant", assistantResponse),
              !.turnCount = @ + 1]

CM_shouldExtractMemory(c) ==
    c.turnCount > 0 /\ c.turnCount % MEMORY_EXTRACT_INTERVAL = 0

\* a compact() that leaves the turns in the Window
CM_compact_keepWindow(c, now, io) ==
    LET turns == Window_getTurns(c.window)
        add == Topic_addFromTurns(c.topics, turns, Some(S_compactDash \o Digits(now)),
                                  now, io # 1)
    IN  IF Len(turns) > 0
        THEN IF add.threw
             THEN [cm |-> [c EXCEPT !.topics = add.store], threw |-> TRUE]
             ELSE [cm |-> [c EXCEPT !.topics = add.store, !.sessionDirty = TRUE],
                   threw |-> FALSE]
        ELSE [cm |-> c, threw |-> FALSE]

\* compact()
CM_compact(c, now, io) ==
    LET turns == Window_getTurns(c.window)
        add == Topic_addFromTurns(c.topics, turns, Some(S_compactDash \o Digits(now)),
                                  now, io # 1)
    IN  IF Len(turns) > 0
        THEN IF add.threw
             THEN [cm |-> [c EXCEPT !.topics = add.store], threw |-> TRUE]
             ELSE [cm |-> [c EXCEPT !.topics = add.store,
                                    !.window = Window_clear(@),
                                    !.sessionDirty = TRUE],
                   threw |-> FALSE]
        ELSE [cm |-> c, threw |-> FALSE]

\* a clearWindow() that does not set the dirty flag
CM_clearWindow_noDirty(c) ==
    [cm |-> [c EXCEPT !.window = Window_clear(@)], threw |-> FALSE]

\* a clearWindow() that starts the turn count again
CM_clearWindow_resetCount(c) ==
    [cm |-> [c EXCEPT !.window = Window_clear(@), !.turnCount = 0,
                      !.sessionDirty = TRUE],
     threw |-> FALSE]

\* clearWindow()
CM_clearWindow(c) ==
    [cm |-> [c EXCEPT !.window = Window_clear(@), !.sessionDirty = TRUE],
     threw |-> FALSE]

\* clearAll()
CM_clearAll(c, io) ==
    LET c1 == [c EXCEPT !.window = Window_clear(@)]
        tc == Topic_clear(c1.topics, io # 1)
        c2 == [c1 EXCEPT !.topics = tc.store]
        mc == Memory_clear(c2.memory, io # 2)
        c3 == [c2 EXCEPT !.memory = mc.memory]
    IN  IF tc.threw THEN [cm |-> c2, threw |-> TRUE]
        ELSE IF mc.threw THEN [cm |-> c3, threw |-> TRUE]
        ELSE [cm |-> [c3 EXCEPT !.sessionDirty = TRUE], threw |-> FALSE]

\* a switchTopic(name) that names the saved topic after its argument
CM_switchTopic_named(c, name, now, io) ==
    LET turns == Window_getTurns(c.window)
        add == Topic_addFromTurns(c.topics, turns, Some(name), now, io # 1)
    IN  IF Len(turns) > 0
        THEN IF add.threw
             THEN [cm |-> [c EXCEPT !.topics = add.store], threw |-> TRUE,
                   savedTopic |-> None]
             ELSE [cm |-> [c EXCEPT !.topics = add.store,
                                    !.window = Window_clear(@),
                                    !.sessionDirty = TRUE],
                   threw |-> FALSE, savedTopic |-> Some(add.topic.name)]
        ELSE [cm |-> [c EXCEPT !.sessionDirty = TRUE], threw |-> FALSE,
              savedTopic |-> None]

\* switchTopic(name): the argument is not used by the method
CM_switchTopic(c, name, now, io) ==
    LET turns == Window_getTurns(c.window)
        add == Topic_addFromTurns(c.topics, turns, None, now, io # 1)
    IN  IF Len(turns) > 0
        THEN IF add.threw
             THEN [cm |-> [c EXCEPT !.topics = add.store], threw |-> TRUE,
                   savedTopic |-> None]
             ELSE [cm |-> [c EXCEPT !.topics = add.store,
                                    !.window = Window_clear(@),
                                    !.sessionDirty = TRUE],
                   threw |-> FALSE, savedTopic |-> Some(add.topic.name)]
        ELSE [cm |-> [c EXCEPT !.sessionDirty = TRUE], threw |-> FALSE,
              savedTopic |-> None]

\* a recallTopic(name) that puts the recalled summary into the Window
CM_recallTopic_inject(c, name) ==
    LET topic == Topic_get(c.topics, name)
    IN  IF topic = None
        THEN [cm |-> c, threw |-> FALSE, found |-> FALSE, summary |-> None]
        ELSE [cm |-> [c EXCEPT !.sessionDirty = TRUE,
                               !.window = Window_addTurn(@, "user", topic[1].summary)],
              threw |-> FALSE, found |-> TRUE,
              summary |-> Some(topic[1].summary)]

\* recallTopic(name)
CM_recallTopic(c, name) ==
    LET topic == Topic_get(c.topics, name)
    IN  IF topic = None
        THEN [cm |-> c, threw |-> FALSE, found |-> FALSE, summary |-> None]
        ELSE [cm |-> [c EXCEPT !.sessionDirty = TRUE], threw |-> FALSE,
              found |-> TRUE, summary |-> Some(topic[1].summary)]


(***************************************************************************)
(* History record of a call: the operation, what it returned, the dirty   *)
(* flag and the Window before it, and the call before it.                 *)
(***************************************************************************)
NoCall ==
    [op |-> "new", threw |-> FALSE, evicted |-> << >>,
     needsNewSession |-> FALSE, sections |-> << >>, found |-> FALSE,
     savedTopic |-> None,
     preDirty |-> FALSE, preTurns |-> << >>, preTokens |-> 0,
     prev |-> [op |-> "none", evicted |-> << >>, threw |-> FALSE,
               needsNewSession |-> FALSE]]

Call(op, pre, threw, evicted) ==
    [NoCall EXCEPT !.op = op, !.threw = threw, !.evicted = evicted,
                   !.preDirty = pre.sessionDirty,
                   !.preTurns = pre.window.turns,
                   !.preTokens = pre.window.currentTokens,
                   !.prev = [op |-> last.op, evicted |-> last.evicted,
                             threw |-> last.threw,
                             needsNewSession |-> last.needsNewSession]]

(***************************************************************************)
(* SpecWin: the Window class driven the way its only caller drives it:     *)
(* ContextManager.addTurn makes two addTurn calls in a row (user, then     *)
(* assistant); trimIfNeeded and clear are called between such pairs.       *)
(***************************************************************************)
InitWin ==
    /\ cm \in {CM_new(b) : b \in 0..MaxBudget}
    /\ clock = 0
    /\ calls = 0
    /\ added = 0
    /\ removed = 0
    /\ half = FALSE
    /\ last = NoCall
    /\ cm2 = cm
    /\ alive = TRUE
    /\ currentSessionId = << >>
    /\ queryInProgress = FALSE
    /\ activeAbort = << >>
    /\ socks = << >>
    /\ inflight = {}
    /\ host = Unused
    /\ shell = Unused
    /\ extracting = {}

WinAddUser ==
    /\ ~half
    /\ added < MaxTurns
    /\ \E text \in UserTexts :
          cm' = [cm EXCEPT !.window = Window_addTurn(@, "user", text)]
    /\ half' = TRUE
    /\ added' = added + 1
    /\ last' = Call("addTurn", cm, FALSE, << >>)
    /\ UNCHANGED <<clock, calls, removed>>
    /\ UNCHANGED daemonVars
    /\ UNCHANGED envVars

WinAddAssistant ==
    /\ half
    /\ \E text \in AsstTexts :
          cm' = [cm EXCEPT !.window = Window_addTurn(@, "assistant", text)]
    /\ half' = FALSE
    /\ added' = added + 1
    /\ last' = Call("addTurn", cm, FALSE, << >>)
    /\ UNCHANGED <<clock, calls, removed>>
    /\ UNCHANGED daemonVars
    /\ UNCHANGED envVars

WinTrim ==
    /\ ~half
    /\ LET r == Window_trimIfNeeded(cm.window)
       IN  /\ cm' = [cm EXCEPT !.window = r.window]
           /\ removed' = removed + Len(r.evicted)
           /\ last' = Call("trimIfNeeded", cm, FALSE, r.evicted)
    /\ UNCHANGED <<clock, calls, added, half>>
    /\ UNCHANGED daemonVars
    /\ UNCHANGED envVars

WinClear ==
    /\ ~half
    /\ cm' = [cm EXCEPT !.window = Window_clear(@)]
    /\ removed' = removed + Len(cm.window.turns)
    /\ last' = Call("clear", cm, FALSE, << >>)
    /\ UNCHANGED <<clock, calls, added, half>>
    /\ UNCHANGED daemonVars
    /\ UNCHANGED envVars

NextWin == WinAddUser \/ WinAddAssistant \/ WinTrim \/ WinClear

SpecWin == InitWin /\ [][NextWin]_vars


(***************************************************************************)
(* SpecCM: the ContextManager driven through its public methods, in any    *)
(* order, with any write failing.                                          *)
(***************************************************************************)
\* the exchanges (user message, assistant response) that are recorded: one
\* of cost 1 and one of cost 3
TurnPairs == {<<T_abc, T_empty>>, <<T_ga, T_abc>>}

\* the topic names the callers ask for
TopicNames == {T_abc, T_ABC}

InitCM ==
    /\ cm \in {CM_new(b) : b \in 1..MaxBudget}
    /\ clock = 0
    /\ calls = 0
    /\ added = 0
    /\ removed = 0
    /\ half = FALSE
    /\ last = NoCall
    /\ cm2 = cm
    /\ alive = TRUE
    /\ currentSessionId = << >>
    /\ queryInProgress = FALSE
    /\ activeAbort = << >>
    /\ socks = << >>
    /\ inflight = {}
    /\ host = Unused
    /\ shell = Unused
    /\ extracting = {}

Tick ==
    /\ clock < MaxClock
    /\ clock' = clock + 1
    /\ UNCHANGED <<cm, calls, added, removed, half, last>>
    /\ UNCHANGED daemonVars
    /\ UNCHANGED envVars

CMBuild ==
    /\ calls < MaxCalls
    /\ \E sh \in ShellStates, io \in IOs :
          LET r == CM_build(cm, Some(T_cwd), sh, clock, io)
          IN  /\ cm' = r.cm
              /\ last' = [Call("build", cm, r.threw, r.evicted) EXCEPT
                             !.needsNewSession = r.needsNewSession,
                             !.sections = r.sections]
    /\ calls' = calls + 1
    /\ UNCHANGED <<clock, added, removed, half>>
    /\ UNCHANGED daemonVars
    /\ UNCHANGED envVars

CMAddTurn ==
    /\ calls < MaxCalls
    /\ \E p \in TurnPairs :
          cm' = CM_addTurn(cm, p[1], p[2])
    /\ last' = Call("addTurn", cm, FALSE, << >>)
    /\ calls' = calls + 1
    /\ UNCHANGED <<clock, added, removed, half>>
    /\ UNCHANGED daemonVars
    /\ UNCHANGED envVars

CMCompact ==
    /\ calls < MaxCalls
    /\ \E io \in IOs :
          LET r == CM_compact(cm, clock, io)
          IN  /\ cm' = r.cm
              /\ last' = Call("compact", cm, r.threw, << >>)
    /\ calls' = calls + 1
    /\ UNCHANGED <<clock, added, removed, half>>
    /\ UNCHANGED daemonVars
    /\ UNCHANGED envVars

CMClearWindow ==
    /\ calls < MaxCalls
    /\ cm' = CM_clearWindow(cm).cm
    /\ last' = Call("clearWindow", cm, FALSE, << >>)
    /\ calls' = calls + 1
    /\ UNCHANGED <<clock, added, removed, half>>
    /\ UNCHANGED daemonVars
    /\ UNCHANGED envVars

CMClearAll ==
    /\ calls < MaxCalls
    /\ \E io \in IOs :
          LET r == CM_clearAll(cm, io)
          IN  /\ cm' = r.cm
              /\ last' = Call("clearAll", cm, r.threw, << >>)
    /\ calls' = calls + 1
    /\ UNCHANGED <<clock, added, removed, half>>
    /\ UNCHANGED daemonVars
    /\ UNCHANGED envVars

CMSwitchTopic ==
    /\ calls < MaxCalls
    /\ \E name \in TopicNames, io \in IOs :
          LET r == CM_switchTopic(cm, name, clock, io)
          IN  /\ cm' = r.cm
              /\ last' = [Call("switchTopic", cm, r.threw, << >>) EXCEPT
                             !.savedTopic = r.savedTopic]
    /\ calls' = calls + 1
    /\ UNCHANGED <<clock, added, removed, half>>
    /\ UNCHANGED daemonVars
    /\ UNCHANGED envVars

CMRecallTopic ==
    /\ calls < MaxCalls
    /\ \E name \in TopicNames :
          LET r == CM_recallTopic(cm, name)
          IN  /\ cm' = r.cm
              /\ last' = [Call("recallTopic", cm, FALSE, << >>) EXCEPT
                             !.found = r.found]
    /\ calls' = calls + 1
    /\ UNCHANGED <<clock, added, removed, half>>
    /\ UNCHANGED daemonVars
    /\ UNCHANGED envVars

NextCM ==
    \/ Tick
    \/ CMBuild
    \/ CMAddTurn
    \/ CMCompact
    \/ CMClearWindow
    \/ CMClearAll
    \/ CMSwitchTopic
    \/ CMRecallTopic

SpecCM == InitCM /\ [][NextCM]_vars

(***************************************************************************)
(* The daemon (daemon.ts).  socks[s] is the socket of client s: "open"     *)
(* while the client has not disconnected, "closed" once it has.  Each data *)
(* event carries one complete frame, as the client of this repository      *)
(* sends them.  A query that was accepted is a record in   *)
(* inflight from the call of query() until its stream has ended or thrown; *)
(* the backend delivers init, then assistant blocks, then one result, and  *)
(* then ends (phase "new", "open", "resulted"), and can throw at any point;*)
(* once the query's AbortController is aborted *)
(* it delivers nothing more and throws.  The frames of a request are the   *)
(* tags of the frames written to its socket, in order.                     *)
(***************************************************************************)
\* number of request frames the daemon receives
MaxReq == 3
\* the clients
Sockets == {1, 2}
\* the window budget the daemon's ContextManager is constructed with, on the
\* scale of the texts of the model
DaemonBudgets == {1}
\* number of assistant content blocks in a backend stream
MaxBlocks == 1

\* the user messages, the commandContext values, the text blocks and the
\* result strings of the backend, the commands and their arguments
QueryMessages == {T_abc}

CommandContexts == {None, Some(T_ls)}

BlockTexts == {T_abc}

ResultTexts == {T_empty, T_abc}

Commands ==
    {"status", "compact", "clear", "forget", "topic", "recall", "remember",
     "stop", "bogus"}

CommandArgs == {None, Some(T_abc)}

\* the commandContext of the same query in the twin run
otherContext(cc) == IF cc = None THEN Some(T_ls) ELSE None

\* the daemon is run with its files writable: no write throws
NoWriteFails == {0}

\* extractMemory(): if (recentResponse.length < 50) return
EXTRACT_MIN_LENGTH == 50

\* send(socket, msg): nothing is written to a destroyed socket
send(frames, destroyed, tag) == IF destroyed THEN frames ELSE Append(frames, tag)

\* an optional string that is undefined or empty is falsy
truthy(opt) == opt # None /\ Len(opt[1]) > 0

\* the prompt handed to the backend: the system prompt, and the command
\* output after it when there is one
appendPrompt(systemPrompt, commandContext) ==
    IF truthy(commandContext)
    THEN systemPrompt \o S_hCommandOutput \o commandContext[1]
    ELSE systemPrompt

\* a handleQuery that never rejects
isBusy_never(inProgress) == FALSE

\* if (queryInProgress): the request is rejected
isBusy(inProgress) == inProgress

\* a close listener that does not abort
onClose_noAbort(q) == q

\* onClose: abort.abort()
onClose(q) == [q EXCEPT !.aborted = TRUE]

\* an update of the context that records the command output with the message
handleQuery_addTurn_withContext(c, userMessage, commandContext, assistantText) ==
    CM_addTurn(c, IF truthy(commandContext) THEN userMessage \o commandContext[1]
                  ELSE userMessage,
               assistantText)

\* contextManager.addTurn(userMessage, assistantText) at the end of the stream
handleQuery_addTurn(c, userMessage, commandContext, assistantText) ==
    CM_addTurn(c, userMessage, assistantText)

\* what a query is compared with later: the Window's turns, the topics, the
\* memory and turnCount
Snapshot(c) ==
    [turns |-> c.window.turns, tokens |-> c.window.currentTokens,
     topics |-> c.topics.topics, memory |-> c.memory.store,
     turnCount |-> c.turnCount]

\* handleCommand(socket, command, args) on an open socket: the manager after
\* it, the frames it wrote, whether it threw (handleConnection swallows the
\* exception), whether it reset currentSessionId, whether it is stop
handleCommand(c, command, args, now, io) ==
    LET ans(c1, frames, reset) ==
            [cm |-> c1, threw |-> FALSE, frames |-> frames \o <<"done">>,
             reset |-> reset, stop |-> FALSE]
        thrown(c1) ==
            [cm |-> c1, threw |-> TRUE, frames |-> << >>, reset |-> FALSE,
             stop |-> FALSE]
        \* a mutator that returned r; then currentSessionId = null and info
        mutated(r) ==
            IF r.threw THEN thrown(r.cm) ELSE ans(r.cm, <<"info">>, TRUE)
        recalled(r) ==
            IF r.found THEN ans(r.cm, <<"info">>, TRUE)
            ELSE ans(r.cm, <<"error">>, FALSE)
        remembered(r) ==
            IF r.threw THEN thrown([c EXCEPT !.memory = r.memory])
            ELSE ans([c EXCEPT !.memory = r.memory], <<"info">>, FALSE)
    IN  CASE command = "status" -> ans(c, <<"status">>, FALSE)
          [] command = "compact" -> mutated(CM_compact(c, now, io))
          [] command = "clear" -> mutated(CM_clearWindow(c))
          [] command = "forget" -> mutated(CM_clearAll(c, io))
          [] command = "topic" ->
                IF ~truthy(args) THEN ans(c, <<"error">>, FALSE)
                ELSE mutated(CM_switchTopic(c, args[1], now, io))
          [] command = "recall" ->
                IF ~truthy(args) THEN ans(c, <<"error">>, FALSE)
                ELSE recalled(CM_recallTopic(c, args[1]))
          [] command = "remember" ->
                IF ~truthy(args) THEN ans(c, <<"error">>, FALSE)
                ELSE remembered(Memory_remember(c.memory, args[1], io # 1))
          [] command = "stop" ->
                [cm |-> c, threw |-> FALSE, frames |-> <<"info", "done">>,
                 reset |-> FALSE, stop |-> TRUE]
          [] OTHER -> ans(c, <<"error">>, FALSE)

\* the commands that read args
CommandsWithArgs == {"topic", "recall", "remember"}

\* the commands that call a mutator of the ContextManager
MutatingCommands == {"compact", "clear", "forget", "topic", "recall", "remember"}

\* history record of the last event: for a request, the frames written for
\* it and how it ended; for a query also the state it started from
NoReq ==
    [op |-> "start", open |-> TRUE, frames |-> << >>,
     outcome |-> "none", threw |-> FALSE,
     inFlightBefore |-> FALSE, sameClient |-> FALSE, before |-> << >>,
     preTurns |-> << >>, preTurnCount |-> 0,
     atAccept |-> << >>, built |-> << >>, disturbed |-> FALSE,
     aborted |-> FALSE, user |-> << >>, text |-> << >>,
     prompt |-> << >>,
     \* a request: what it was ("ping", "invalid", or the command when it
     \* reset currentSessionId), whether the handler reset currentSessionId,
     \* whether the Window held turns
     cmd |-> "", reset |-> FALSE, hadTurns |-> FALSE,
     \* an accepted query: what build() reported, and the command (with the
     \* Window it found) when the event before was a command that reset the
     \* session id
     needsNew |-> FALSE, after |-> "none", afterTurns |-> FALSE,
     \* an accepted query: whether the event before it was the end of a query
     \* that threw or was cancelled and whose build() had reported
     \* needsNewSession
     afterLost |-> FALSE,
     \* a finished query: whether a forget command completed while it was in
     \* flight
     forgotten |-> FALSE,
     \* a finished query: whether extractMemory() was called
     extract |-> FALSE]

Event(op) == [NoReq EXCEPT !.op = op]

\* extractMemory(): the limits of its validation
EXTRACT_MAX_INPUT == 4000
EXTRACT_MAX_VALUE == 100
EXTRACT_MAX_PROJECT == 3
EXTRACT_MAX_LIST == 2

\* a JSON value that is not a string, an array or an object (a number)
JNumber == <<-2>>

\* typeof v === "string" && v.length <= 100
isShortString(v) == v # JNumber /\ v # Undefined /\ Len(v) <= EXTRACT_MAX_VALUE

\* the value of an entry of raw.project passes the checks
isShortEntry(e) == isShortString(e[2])

\* Array.isArray(v), and v is an object that is not an array: the model
\* writes an array as a sequence of values and an object as a sequence of
\* <<key, value>> entries, and uses each only where the other cannot stand
isCollection(v) == v # JNumber /\ v # Undefined

\* what the backend of an extraction pass delivered: it threw, or it ended
\* with a response text that is blank, or whose payload (the inside of a
\* markdown fence when there is one) is not JSON, is JSON of another type,
\* or is an object raw
Delivered(threw, blank, json, raw) ==
    [threw |-> threw, blank |-> blank, json |-> json, raw |-> raw]

NoRaw == [project |-> Undefined, conventions |-> Undefined, decisions |-> Undefined]

\* the lines of extractMemory() after the stream of its backend call: the
\* Memory afterwards, whether the promise rejected, whether a merge was made
extractMemory_finish(m, d, ok) ==
    LET same(threw) == [memory |-> m, threw |-> threw, merged |-> FALSE]
        raw == d.raw
        proj == IF isCollection(raw.project)
                THEN Slice(SelectSeq(raw.project, isShortEntry), EXTRACT_MAX_PROJECT)
                ELSE << >>
        convs == IF isCollection(raw.conventions)
                 THEN Slice(SelectSeq(raw.conventions, isShortString), EXTRACT_MAX_LIST)
                 ELSE << >>
        decs == IF isCollection(raw.decisions)
                THEN Slice(SelectSeq(raw.decisions, isShortString), EXTRACT_MAX_LIST)
                ELSE << >>
        extracted ==
            [NoData EXCEPT
                !.has = (IF Len(proj) > 0 THEN {"project"} ELSE {})
                        \cup (IF Len(convs) > 0 THEN {"conventions"} ELSE {})
                        \cup (IF Len(decs) > 0 THEN {"decisions"} ELSE {}),
                !.project = proj, !.conventions = convs, !.decisions = decs]
        merge == Memory_mergeExtracted(m, extracted, ok)
    IN  IF d.threw THEN same(TRUE)
        ELSE IF d.blank THEN same(FALSE)
        ELSE IF d.json = "invalid" THEN same(TRUE)
        ELSE IF d.json # "object" THEN same(FALSE)
        ELSE IF extracted.has = {} THEN same(FALSE)
        ELSE [memory |-> merge.memory, threw |-> merge.threw, merged |-> TRUE]

\* extractMemory(assistantText) up to its first await: nothing is started
\* for a response shorter than 50 characters; the backend is given at most
\* the first EXTRACT_MAX_INPUT characters
extractMemory_start(passes, id, recentResponse) ==
    IF Len(recentResponse) < EXTRACT_MIN_LENGTH THEN passes
    ELSE passes \cup {[id |-> id, input |-> Slice(recentResponse, EXTRACT_MAX_INPUT)]}

\* a call of extractMemory() without the catch: the rejection is unhandled
\* and ends the process
catch_missing(threw) == threw

\* extractMemory(...).catch(() => {}): whether the rejection of the pass
\* reaches the process
catch_ignore(threw) == FALSE

\* the ContextManager after n queries "abc" that each ended with the text
\* "abc": n times build() and addTurn()
RECURSIVE Recorded(_, _)
Recorded(c, n) ==
    IF n = 0 THEN c
    ELSE Recorded(handleQuery_addTurn(CM_build(c, Some(T_cwd), DEFAULT_STATE, 0, 0).cm,
                                      T_abc, None, T_abc),
                  n - 1)

\* the daemon is observed from its start with both clients connected, or
\* from the moment it has recorded one query less than the extraction
\* interval (the session id is then that of the last of these queries, 0,
\* and the client that sent them is the one connected)
RecordedBefore == {0, MEMORY_EXTRACT_INTERVAL - 1}

Init ==
    /\ \E b \in DaemonBudgets, n \in RecordedBefore :
          /\ cm = Recorded(CM_new(b), n)
          /\ currentSessionId = IF n = 0 THEN None ELSE Some(0)
          /\ socks = [s \in Sockets |-> IF n = 0 \/ s = 1 THEN "open" ELSE "closed"]
    /\ cm2 = cm
    /\ clock = 0
    /\ calls = 0
    /\ added = 0
    /\ removed = 0
    /\ half = FALSE
    /\ last = NoReq
    /\ alive = TRUE
    /\ queryInProgress = FALSE
    /\ activeAbort = None
    /\ inflight = {}
    /\ host = Unused
    /\ shell = Unused
    /\ extracting = {}

\* client s disconnects while a query of its own is in flight: the socket is
\* destroyed and its close listeners run (the daemon does nothing when an
\* idle client disconnects)
ClientClose(s) ==
    /\ alive
    /\ socks[s] = "open"
    /\ \E q \in inflight : q.sock = s
    /\ socks' = [socks EXCEPT ![s] = "closed"]
    /\ inflight' = {IF q.sock = s THEN onClose(q) ELSE q : q \in inflight}
    /\ last' = Event("close")
    /\ UNCHANGED <<cm, cm2, clock, calls, added, removed, half, alive,
                   currentSessionId, queryInProgress, activeAbort>>
    /\ UNCHANGED envVars

\* a ping frame
ReceivePing(s) ==
    /\ alive
    /\ socks[s] = "open"
    /\ calls < MaxReq
    /\ calls' = calls + 1
    /\ last' = [Event("request") EXCEPT !.outcome = "answered", !.cmd = "ping",
                    !.frames = send(send(<< >>, FALSE, "info"), FALSE, "done")]
    /\ UNCHANGED <<cm, cm2, clock, added, removed, half, alive, currentSessionId,
                   queryInProgress, activeAbort, socks, inflight>>
    /\ UNCHANGED envVars

\* a frame that isValidClientMessage rejects
ReceiveInvalid(s) ==
    /\ alive
    /\ socks[s] = "open"
    /\ calls < MaxReq
    /\ calls' = calls + 1
    /\ last' = [Event("request") EXCEPT !.outcome = "answered", !.cmd = "invalid",
                    !.frames = send(send(<< >>, FALSE, "error"), FALSE, "done")]
    /\ UNCHANGED <<cm, cm2, clock, added, removed, half, alive, currentSessionId,
                   queryInProgress, activeAbort, socks, inflight>>
    /\ UNCHANGED envVars

\* a line that is not JSON: parseBuffer skips it, handleConnection never
\* sees it and nothing is written
ReceiveMalformed(s) ==
    /\ alive
    /\ socks[s] = "open"
    /\ calls < MaxReq
    /\ calls' = calls + 1
    /\ last' = [Event("malformed") EXCEPT !.outcome = "skipped"]
    /\ UNCHANGED <<cm, cm2, clock, added, removed, half, alive, currentSessionId,
                   queryInProgress, activeAbort, socks, inflight>>
    /\ UNCHANGED envVars

\* a query frame with one of the given commandContext values, the shell
\* state file holding one of the given states and the writes of build()
\* failing as one of ios says: handleQuery up to its first await
Query(s, contexts, states, ios) ==
    /\ alive
    /\ socks[s] = "open"
    /\ calls < MaxReq
    /\ calls' = calls + 1
    /\ \E message \in QueryMessages :
          LET arrival == [Event("query") EXCEPT
                              !.inFlightBefore = inflight # {},
                              !.sameClient = \E q \in inflight : q.sock = s,
                              !.before = [cm |-> cm, inflight |-> inflight,
                                          activeAbort |-> activeAbort],
                              !.user = message]
          IN  IF isBusy(queryInProgress)
              THEN /\ last' = [arrival EXCEPT !.outcome = "busy",
                                   !.frames = send(send(<< >>, FALSE, "error"),
                                                   FALSE, "done")]
                   /\ UNCHANGED <<cm, cm2, queryInProgress, activeAbort,
                                  inflight>>
              ELSE \E cc \in contexts, sh \in states, io \in ios :
                   LET built(ctx, ctx2) ==
                          /\ queryInProgress' = TRUE
                          /\ activeAbort' = Some(calls + 1)
                          /\ cm' = ctx.cm
                          /\ cm2' = ctx2.cm
                          /\ IF ctx.threw
                             THEN /\ inflight' = inflight
                                  /\ last' = [arrival EXCEPT !.outcome = "buildThrew",
                                                  !.threw = TRUE,
                                                  !.frames = send(send(<< >>, FALSE, "error"),
                                                                  FALSE, "done")]
                             ELSE /\ inflight' = inflight \cup
                                        {[id |-> calls + 1, sock |-> s,
                                          message |-> message, commandContext |-> cc,
                                          assistantText |-> << >>, blocks |-> 0,
                                          phase |-> "new", failed |-> FALSE,
                                          aborted |-> FALSE, frames |-> << >>,
                                          atAccept |-> Snapshot(cm),
                                          built |-> Snapshot(ctx.cm),
                                          needsNew |-> ctx.needsNewSession,
                                          forgotten |-> FALSE,
                                          disturbed |-> FALSE]}
                                  /\ last' = [arrival EXCEPT !.outcome = "accepted",
                                                  !.prompt = appendPrompt(ctx.systemPrompt, cc),
                                                  !.needsNew = ctx.needsNewSession,
                                                  !.after = IF last.op = "request" /\ last.reset
                                                            THEN last.cmd ELSE "none",
                                                  !.afterTurns = last.op = "request"
                                                                 /\ last.reset /\ last.hadTurns,
                                                  !.afterLost =
                                                      /\ last.op = "query"
                                                      /\ last.outcome \in {"error", "cancelled"}
                                                      /\ last.needsNew]
                   IN  built(CM_build(cm, Some(T_cwd), sh, clock, io),
                             CM_build(cm2, Some(T_cwd), sh, clock, io))
    /\ UNCHANGED <<clock, added, removed, half, alive, currentSessionId, socks>>
    /\ UNCHANGED envVars

\* a query frame
ReceiveQuery(s) == Query(s, CommandContexts, ShellStates, NoWriteFails)

\* a command frame with one of the given commands: handleCommand
Command(s, commands) ==
    /\ alive
    /\ socks[s] = "open"
    /\ calls < MaxReq
    /\ calls' = calls + 1
    /\ \E command \in commands, io \in NoWriteFails :
       \E args \in IF command \in CommandsWithArgs THEN CommandArgs ELSE {None} :
          LET handled(r, r2) ==
                 /\ cm' = r.cm
                 /\ cm2' = r2.cm
                 /\ currentSessionId' = IF r.reset THEN None ELSE currentSessionId
                 /\ alive' = ~r.stop
                 /\ inflight' =
                       {[q EXCEPT !.aborted = @ \/ (r.stop /\ activeAbort = Some(q.id)),
                                  !.disturbed = @ \/ command \in MutatingCommands,
                                  !.forgotten = @ \/ (command = "forget" /\ ~r.threw)]
                          : q \in inflight}
                 /\ last' = [Event("request") EXCEPT
                                 !.cmd = IF r.reset THEN command ELSE "", !.reset = r.reset,
                                 !.hadTurns = Len(cm.window.turns) > 0,
                                 !.threw = r.threw, !.frames = r.frames,
                                 !.outcome = IF r.threw THEN "swallowed" ELSE "answered"]
          IN  handled(handleCommand(cm, command, args, clock, io),
                      handleCommand(cm2, command, args, clock, io))
    /\ UNCHANGED <<clock, added, removed, half, queryInProgress, activeAbort, socks>>
    /\ UNCHANGED envVars

\* a command frame
ReceiveCommand(s) == Command(s, Commands)

\* the stream yields the system init message
StreamInit(q) ==
    /\ alive
    /\ ~q.aborted /\ q.phase = "new"
    /\ currentSessionId' = Some(q.id)
    /\ inflight' = (inflight \ {q}) \cup {[q EXCEPT !.phase = "open"]}
    /\ last' = Event("stream")
    /\ UNCHANGED <<cm, cm2, clock, calls, added, removed, half, alive,
                   queryInProgress, activeAbort, socks>>
    /\ UNCHANGED envVars

\* the stream yields an assistant message with a text block
StreamText(q) ==
    /\ alive
    /\ ~q.aborted /\ q.phase = "open" /\ q.blocks < MaxBlocks
    /\ \E text \in BlockTexts :
          inflight' = (inflight \ {q}) \cup
              {[q EXCEPT !.assistantText = @ \o text, !.blocks = @ + 1,
                         !.frames = send(@, socks[q.sock] = "closed", "text")]}
    /\ last' = Event("stream")
    /\ UNCHANGED <<cm, cm2, clock, calls, added, removed, half, alive,
                   currentSessionId, queryInProgress, activeAbort, socks>>
    /\ UNCHANGED envVars

\* the stream yields an assistant message with a tool-use block
StreamToolUse(q) ==
    /\ alive
    /\ ~q.aborted /\ q.phase = "open" /\ q.blocks < MaxBlocks
    /\ inflight' = (inflight \ {q}) \cup
          {[q EXCEPT !.blocks = @ + 1,
                     !.frames = send(@, socks[q.sock] = "closed", "tool_use")]}
    /\ last' = Event("stream")
    /\ UNCHANGED <<cm, cm2, clock, calls, added, removed, half, alive,
                   currentSessionId, queryInProgress, activeAbort, socks>>
    /\ UNCHANGED envVars

\* the stream yields its result message: a success with a result string
\* (the text so far, or another one), or another subtype
StreamResult(q) ==
    /\ alive
    /\ ~q.aborted /\ q.phase = "open"
    /\ \/ \E result \in ResultTexts \cup {q.assistantText} :
             inflight' = (inflight \ {q}) \cup
                 {IF Len(result) > 0 /\ result # q.assistantText
                  THEN [q EXCEPT !.phase = "resulted", !.assistantText = @ \o result,
                                 !.frames = send(@, socks[q.sock] = "closed", "text")]
                  ELSE [q EXCEPT !.phase = "resulted"]}
       \/ inflight' = (inflight \ {q}) \cup
             {[q EXCEPT !.phase = "resulted", !.failed = TRUE,
                        !.frames = send(@, socks[q.sock] = "closed", "error")]}
    /\ last' = Event("stream")
    /\ UNCHANGED <<cm, cm2, clock, calls, added, removed, half, alive,
                   currentSessionId, queryInProgress, activeAbort, socks>>
    /\ UNCHANGED envVars

\* what the end of handleQuery leaves in the history
Finished(q, outcome, frames) ==
    [Event("query") EXCEPT
        !.open = socks[q.sock] = "open", !.frames = frames,
        !.outcome = outcome, !.preTurns = cm.window.turns,
        !.preTurnCount = cm.turnCount, !.atAccept = q.atAccept,
        !.built = q.built, !.disturbed = q.disturbed, !.aborted = q.aborted,
        !.needsNew = q.needsNew, !.forgotten = q.forgotten,
        !.user = q.message, !.text = q.assistantText]

\* the stream ends: the lines after the loop (addTurn, and extractMemory
\* when shouldExtractMemory() says so), finally, and the done frame.  An
\* extraction pass for a text shorter than EXTRACT_MIN_LENGTH returns at
\* its first line; another one stays pending
StreamEnd(q) ==
    /\ alive
    /\ ~q.aborted /\ q.phase = "resulted"
    /\ extracting' =
          IF CM_shouldExtractMemory(
                 handleQuery_addTurn(cm, q.message, q.commandContext, q.assistantText))
          THEN extractMemory_start(extracting, q.id, q.assistantText)
          ELSE extracting
    /\ cm' = handleQuery_addTurn(cm, q.message, q.commandContext, q.assistantText)
    /\ cm2' = handleQuery_addTurn(cm2, q.message, otherContext(q.commandContext),
                                  q.assistantText)
    /\ queryInProgress' = FALSE
    /\ activeAbort' = None
    /\ inflight' = inflight \ {q}
    /\ last' = [Finished(q, IF q.failed THEN "failed" ELSE "success",
                         send(q.frames, socks[q.sock] = "closed", "done"))
                   EXCEPT !.extract =
                       CM_shouldExtractMemory(
                           handleQuery_addTurn(cm, q.message, q.commandContext,
                                               q.assistantText))]
    /\ UNCHANGED <<clock, calls, added, removed, half, alive, currentSessionId,
                   socks, host, shell>>

\* the stream throws: the catch block, finally, and the done frame
StreamThrow(q) ==
    /\ alive
    /\ queryInProgress' = FALSE
    /\ activeAbort' = None
    /\ inflight' = inflight \ {q}
    /\ last' = Finished(q, IF q.aborted THEN "cancelled" ELSE "error",
                        send(send(q.frames, socks[q.sock] = "closed",
                                  IF q.aborted THEN "info" ELSE "error"),
                             socks[q.sock] = "closed", "done"))
    /\ UNCHANGED <<cm, cm2, clock, calls, added, removed, half, alive,
                   currentSessionId, socks>>
    /\ UNCHANGED envVars

Next ==
    \/ \E s \in Sockets : ClientClose(s)
    \/ \E s \in Sockets : ReceivePing(s)
    \/ \E s \in Sockets : ReceiveInvalid(s)
    \/ \E s \in Sockets : ReceiveMalformed(s)
    \/ \E s \in Sockets : ReceiveQuery(s)
    \/ \E s \in Sockets : ReceiveCommand(s)
    \/ \E q \in inflight : StreamInit(q)
    \/ \E q \in inflight : StreamText(q)
    \/ \E q \in inflight : StreamToolUse(q)
    \/ \E q \in inflight : StreamResult(q)
    \/ \E q \in inflight : StreamEnd(q)
    \/ \E q \in inflight : StreamThrow(q)

Spec == Init /\ [][Next]_vars


(***************************************************************************)
(* SpecExtract: the daemon with answers long enough to be extracted from.  *)
(* It is observed from the moment it has recorded one query less than the  *)
(* extraction interval, so that the next recorded query starts a           *)
(* background extraction pass; the pass ends at any later moment, with     *)
(* whatever its backend call delivers, between the other handlers.         *)
(***************************************************************************)
\* a string of n characters c
Repeat(c, n) == [i \in 1..n |-> c]

\* an answer of EXTRACT_MIN_LENGTH characters, and a value one character
\* longer than the validation accepts
T_long == Repeat(97, EXTRACT_MIN_LENGTH)
T_over == Repeat(97, EXTRACT_MAX_VALUE + 1)

\* what the backend of an extraction pass can deliver
Deliveries ==
    {Delivered(TRUE, FALSE, "invalid", NoRaw),
     Delivered(FALSE, TRUE, "invalid", NoRaw),
     Delivered(FALSE, FALSE, "invalid", NoRaw),
     Delivered(FALSE, FALSE, "array", NoRaw),
     Delivered(FALSE, FALSE, "object", NoRaw),
     Delivered(FALSE, FALSE, "object",
               [project |-> JNumber, conventions |-> JNumber,
                decisions |-> <<T_over, JNumber>>]),
     Delivered(FALSE, FALSE, "object",
               [project |-> << <<T_a, T_abc>>, <<T_abc, JNumber>>, <<T_ls, T_over>>,
                               <<T_cwd, T_a>>, <<T_ga, T_a>>, <<T_gaga, T_a>> >>,
                conventions |-> <<K_rule, JNumber, T_over, T_abc, T_ABC>>,
                decisions |-> Undefined])}

\* how a pass that was delivered d and finished as r ended
ExtractOutcome(d, r) ==
    IF d.threw THEN "backendError"
    ELSE IF d.blank THEN "empty"
    ELSE IF d.json = "invalid" THEN "parseError"
    ELSE IF ~r.merged THEN "malformed"
    ELSE IF r.threw THEN "mergeThrew"
    ELSE "merged"

\* the outcomes that are failures of the pass
ExtractFailures == {"backendError", "empty", "parseError", "malformed"}

InitExtract ==
    /\ \E b \in DaemonBudgets :
          cm = Recorded(CM_new(b), MEMORY_EXTRACT_INTERVAL - 1)
    /\ currentSessionId = Some(0)
    /\ socks = [s \in Sockets |-> IF s = 1 THEN "open" ELSE "closed"]
    /\ cm2 = cm
    /\ clock = 0
    /\ calls = 0
    /\ added = 0
    /\ removed = 0
    /\ half = FALSE
    /\ last = NoReq
    /\ alive = TRUE
    /\ queryInProgress = FALSE
    /\ activeAbort = None
    /\ inflight = {}
    /\ host = Unused
    /\ shell = Unused
    /\ extracting = {}

\* the stream yields an assistant message with a long text block
StreamLongText(q) ==
    /\ alive
    /\ ~q.aborted /\ q.phase = "open" /\ q.blocks < MaxBlocks
    /\ inflight' = (inflight \ {q}) \cup
          {[q EXCEPT !.assistantText = @ \o T_long, !.blocks = @ + 1,
                     !.frames = send(@, socks[q.sock] = "closed", "text")]}
    /\ last' = Event("stream")
    /\ UNCHANGED <<cm, cm2, clock, calls, added, removed, half, alive,
                   currentSessionId, queryInProgress, activeAbort, socks>>
    /\ UNCHANGED envVars

\* the backend call of pass p ends and the rest of extractMemory() runs;
\* the promise is settled and its catch runs
ExtractEnd(p) ==
    /\ alive
    /\ \E d \in Deliveries, ok \in BOOLEAN :
          LET r == extractMemory_finish(cm.memory, d, ok)
              r2 == extractMemory_finish(cm2.memory, d, ok)
          IN  /\ cm' = [cm EXCEPT !.memory = r.memory]
              /\ cm2' = [cm2 EXCEPT !.memory = r2.memory]
              /\ alive' = ~catch_ignore(r.threw)
              /\ last' = [Event("extract") EXCEPT
                              !.threw = r.threw, !.outcome = ExtractOutcome(d, r),
                              !.before = cm.memory]
    /\ extracting' = extracting \ {p}
    /\ UNCHANGED <<clock, calls, added, removed, half, currentSessionId,
                   queryInProgress, activeAbort, socks, inflight, host, shell>>

\* the commands that change the Memory store
MemoryCommands == {"remember", "forget"}

\* a remember or forget command frame
ReceiveMemoryCommand(s) == Command(s, MemoryCommands)

\* a query frame without command output, the shell state file missing
ReceivePlainQuery(s) == Query(s, {None}, {DEFAULT_STATE}, NoWriteFails)

NextExtract ==
    \/ \E s \in Sockets : ReceivePlainQuery(s)
    \/ \E s \in Sockets : ReceiveMemoryCommand(s)
    \/ \E q \in inflight : StreamInit(q)
    \/ \E q \in inflight : StreamLongText(q)
    \/ \E q \in inflight : StreamResult(q)
    \/ \E q \in inflight : StreamEnd(q)
    \/ \E p \in extracting : ExtractEnd(p)

SpecExtract == InitExtract /\ [][NextExtract]_vars


(***************************************************************************)
(* SpecShell: the interactive shell (AishShell) with the daemon running.   *)
(* The events of the event loop are the steps: a line of input, Ctrl+C,    *)
(* the end of input, the close of a child process, and what happens on the *)
(* socket of an AI query (the done frame, an error, the peer closing       *)
(* it, the close event after destroy()).  A handler and the promise        *)
(* continuations it sets off run to the next await without interruption.   *)
(* An input line is <<kind, n>>: n is its place among the lines entered    *)
(* and kind is what dispatch() makes of it: "ai" (> query), "sh" (a shell  *)
(* command), "nf" (a shell command that is not found and is neither        *)
(* natural language nor close to a known command), "cd", "exit".           *)
(***************************************************************************)
\* number of input lines
MaxLines == 3

LineKinds == {"ai", "sh", "nf", "cd", "exit"}

\* the exit code of a command that is not found
NOT_FOUND == 127

AishShell_new ==
    [cmdQueue |-> << >>, isProcessing |-> FALSE, isClosing |-> FALSE,
     activeChild |-> FALSE, activeSocket |-> FALSE, isQuerying |-> FALSE,
     pendingInputResolve |-> FALSE,
     \* the dispatch that is waiting, and for what ("child", "ai", "prompt")
     current |-> None,
     \* the child process ("none", "running") and whether it was signalled
     child |-> "none", signalled |-> FALSE,
     \* the socket of the query: "none", "open", "destroyed" (its close
     \* event is still to come), "closed"
     socket |-> "none",
     \* the readline interface is open; the process: "no" (running), "bye"
     \* (it printed Bye. and called exit), "silent" (it ended with nothing
     \* left to wait for)
     inputOpen |-> TRUE, exited |-> "no",
     \* history: the lines enqueued, those whose dispatch began and those
     \* whose dispatch completed, and the number of line events
     entered |-> << >>, started |-> << >>, finished |-> << >>, lines |-> 0]

\* handleAIQuery() of the dispatch in progress, to the await in sendToAI
handleAIQuery(sh, input) ==
    [sh EXCEPT !.isQuerying = TRUE, !.activeSocket = TRUE, !.socket = "open",
               !.current = Some([input |-> input, at |-> "ai", cancelled |-> FALSE])]

\* handleShellCommand() of the dispatch in progress, to its await
handleShellCommand(sh, input) ==
    [sh EXCEPT !.activeChild = TRUE, !.child = "running", !.signalled = FALSE,
               !.current = Some([input |-> input, at |-> "child", cancelled |-> FALSE])]

\* the while loop of processQueue(), from its test to the next await that
\* does not resolve at once, or to its end: isProcessing = false and, when
\* closing, Bye. and exit
RECURSIVE processQueue(_)
processQueue(sh) ==
    IF sh.cmdQueue = << >>
    THEN [sh EXCEPT !.isProcessing = FALSE,
                    !.exited = IF sh.isClosing THEN "bye" ELSE @]
    ELSE LET input == Head(sh.cmdQueue)
             s1 == [sh EXCEPT !.cmdQueue = Tail(@), !.started = Append(@, input)]
             done(s) == [s EXCEPT !.finished = Append(@, input)]
         IN  CASE input[1] = "ai" -> handleAIQuery(s1, input)
               [] input[1] \in {"sh", "nf", "typo"} -> handleShellCommand(s1, input)
               [] input[1] = "exit" ->
                     \* rl.close(): the close handler runs inside the queue
                     processQueue(done([s1 EXCEPT !.inputOpen = FALSE,
                                                  !.isClosing = TRUE]))
               [] OTHER -> processQueue(done(s1))

\* the promise of the dispatch in progress is resolved: fn() returns and
\* the loop of processQueue() goes on
resolveDispatch(sh) ==
    processQueue([sh EXCEPT !.finished = Append(@, sh.current[1].input),
                            !.current = None, !.socket = "none"])

\* the close event of the query's socket: streamResponses() resolves its
\* promise, to which sendToAI() attached only a catch
socketClosed(sh) == [sh EXCEPT !.socket = "closed"]

\* enqueue(fn): push, and processQueue() when it is not running
enqueue(sh, input) ==
    LET s1 == [sh EXCEPT !.cmdQueue = Append(@, input),
                         !.entered = Append(@, input)]
    IN  IF s1.isProcessing THEN s1
        ELSE processQueue([s1 EXCEPT !.isProcessing = TRUE])

InitShell ==
    /\ shell = AishShell_new
    /\ host = Unused
    /\ extracting = {}
    /\ cm = Unused
    /\ cm2 = Unused
    /\ clock = 0
    /\ calls = 0
    /\ added = 0
    /\ removed = 0
    /\ half = FALSE
    /\ last = Unused
    /\ alive = TRUE
    /\ currentSessionId = Unused
    /\ queryInProgress = FALSE
    /\ activeAbort = Unused
    /\ socks = Unused
    /\ inflight = {}

ShellStep(sh) ==
    /\ shell' = sh
    /\ UNCHANGED <<cm, clock, calls, added, removed, half, last, host, extracting>>
    /\ UNCHANGED daemonVars

Running == shell.exited = "no"

\* a line event with a command: it is enqueued
ShellLine ==
    /\ Running /\ shell.inputOpen /\ ~shell.pendingInputResolve
    /\ shell.lines < MaxLines
    /\ \E kind \in LineKinds :
          ShellStep(enqueue([shell EXCEPT !.lines = @ + 1],
                            <<kind, shell.lines + 1>>))

\* a line event while promptLine() waits: the line is the answer, "n" or
\* something else, and handleCommandNotFound() goes on
ShellAnswer ==
    /\ Running /\ shell.inputOpen /\ shell.pendingInputResolve
    /\ shell.lines < MaxLines
    /\ \E no \in BOOLEAN :
          LET s1 == [shell EXCEPT !.lines = @ + 1, !.pendingInputResolve = FALSE]
          IN  ShellStep(IF no THEN resolveDispatch(s1)
                        ELSE handleAIQuery(s1, s1.current[1].input))

\* Ctrl+C: the SIGINT handler of the readline interface
ShellSigint ==
    /\ Running /\ shell.inputOpen
    /\ ShellStep(IF shell.activeChild
                 THEN [shell EXCEPT !.activeChild = FALSE, !.signalled = TRUE]
                 ELSE IF shell.activeSocket
                 \* destroy() of a socket that is closed already does nothing
                 THEN [shell EXCEPT !.activeSocket = FALSE, !.isQuerying = FALSE,
                                    !.socket = IF @ = "open" THEN "destroyed" ELSE @,
                                    !.current = Some([@[1] EXCEPT !.cancelled =
                                                         @ \/ shell.socket = "open"])]
                 ELSE shell)

\* the end of input (Ctrl+D): the close handler
ShellClose ==
    /\ Running /\ shell.inputOpen
    /\ ShellStep(IF shell.isClosing THEN [shell EXCEPT !.inputOpen = FALSE]
                 ELSE [shell EXCEPT !.inputOpen = FALSE, !.isClosing = TRUE,
                                    !.exited = IF shell.isProcessing THEN @ ELSE "bye"])

\* the child process closes with exit code code (a child that was signalled
\* reports no code, which counts as 0, unless it had ended by itself)
ShellChildClose ==
    /\ Running /\ shell.child = "running"
    /\ \E code \in {0, NOT_FOUND} :
          /\ code = NOT_FOUND => shell.current[1].input[1] = "nf"
          /\ code = 0 => (shell.current[1].input[1] = "sh" \/ shell.signalled)
          /\ LET s1 == [shell EXCEPT !.activeChild = FALSE, !.child = "none"]
             IN  ShellStep(
                    IF code # NOT_FOUND THEN resolveDispatch(s1)
                    \* handleCommandNotFound(): promptLine() returns "" at
                    \* once when closing, and the query is sent
                    ELSE IF s1.isClosing THEN handleAIQuery(s1, s1.current[1].input)
                    ELSE [s1 EXCEPT !.pendingInputResolve = TRUE,
                                    !.current = Some([@[1] EXCEPT !.at = "prompt"])])

\* the done frame of the query arrives
ShellDone ==
    /\ Running /\ shell.socket = "open"
    /\ ShellStep(resolveDispatch([shell EXCEPT !.activeSocket = FALSE,
                                               !.isQuerying = FALSE]))

\* the socket of the query reports an error (the idle timeout, a reset)
ShellSocketError ==
    /\ Running /\ shell.socket = "open"
    /\ ShellStep(resolveDispatch([shell EXCEPT !.activeSocket = FALSE,
                                               !.isQuerying = FALSE]))

\* the daemon closes the connection without a done frame (it stopped)
ShellHangup ==
    /\ Running /\ shell.socket = "open"
    /\ ShellStep(socketClosed(shell))

\* the close event of a socket that Ctrl+C destroyed
ShellSocketClosed ==
    /\ Running /\ shell.socket = "destroyed"
    /\ ShellStep(socketClosed(shell))

\* nothing more can happen: input is closed, no child runs and no socket is
\* open
NothingPending ==
    /\ ~shell.inputOpen
    /\ shell.child = "none"
    /\ shell.socket \in {"none", "closed"}

\* the process ends because its event loop is empty
ShellDrain ==
    /\ Running /\ NothingPending
    /\ ShellStep([shell EXCEPT !.exited = "silent"])

NextShell ==
    \/ ShellLine
    \/ ShellAnswer
    \/ ShellSigint
    \/ ShellClose
    \/ ShellChildClose
    \/ ShellDone
    \/ ShellSocketError
    \/ ShellHangup
    \/ ShellSocketClosed
    \/ ShellDrain

SpecShell == InitShell /\ [][NextShell]_vars

\* the close event of a destroyed socket is emitted
SpecShellLive == SpecShell /\ WF_vars(ShellSocketClosed)


(***************************************************************************)
(* SpecTypo: the interactive shell with mistyped commands.  A line of kind *)
(* "typo" is a shell command that is not found, is not natural language    *)
(* and for which findSimilarCommand() returns a corrected command; the     *)
(* corrected command of line n runs as the input <<"fixed", n>>.  The      *)
(* variable last is the history: the answers given to the prompts, as      *)
(* pairs <<n, answer>>, and the lines whose corrected command was run.     *)
(***************************************************************************)
TypoKinds == {"typo", "sh"}

\* the answers to [Y=run / n=cancel / a=AI], after trim() and toLowerCase()
Choices == {"y", "", "n", "a"}

InitTypo ==
    /\ shell = AishShell_new
    /\ last = [answers |-> {}, ran |-> {}]
    /\ host = Unused
    /\ extracting = {}
    /\ cm = Unused
    /\ cm2 = Unused
    /\ clock = 0
    /\ calls = 0
    /\ added = 0
    /\ removed = 0
    /\ half = FALSE
    /\ alive = TRUE
    /\ currentSessionId = Unused
    /\ queryInProgress = FALSE
    /\ activeAbort = Unused
    /\ socks = Unused
    /\ inflight = {}

TypoStep(sh, hist) ==
    /\ shell' = sh
    /\ last' = hist
    /\ UNCHANGED <<cm, clock, calls, added, removed, half, host, extracting>>
    /\ UNCHANGED daemonVars

\* handleCommandNotFound() after promptLine() returned answer for line n
afterPrompt(sh, n, choice) ==
    IF choice = "a" THEN handleAIQuery(sh, sh.current[1].input)
    ELSE IF choice # "n" THEN handleShellCommand(sh, <<"fixed", n>>)
    ELSE resolveDispatch(sh)

\* a line event with a command: it is enqueued
TypoLine ==
    /\ Running /\ shell.inputOpen /\ ~shell.pendingInputResolve
    /\ shell.lines < MaxLines
    /\ \E kind \in TypoKinds :
          TypoStep(enqueue([shell EXCEPT !.lines = @ + 1],
                           <<kind, shell.lines + 1>>), last)

\* a line event while promptLine() waits: the line is the answer
TypoAnswer ==
    /\ Running /\ shell.inputOpen /\ shell.pendingInputResolve
    /\ shell.lines < MaxLines
    /\ \E choice \in Choices :
          LET n == shell.current[1].input[2]
              s1 == [shell EXCEPT !.lines = @ + 1, !.pendingInputResolve = FALSE]
          IN  TypoStep(afterPrompt(s1, n, choice),
                       [last EXCEPT !.answers = @ \cup {<<n, choice>>},
                                    !.ran = IF choice \in {"a", "n"} THEN @
                                            ELSE @ \cup {n}])

\* the child process closes: a mistyped command is not found (exit code
\* 127) unless Ctrl+C ended it first, every other command ends with 0
TypoChildClose ==
    /\ Running /\ shell.child = "running"
    /\ \E code \in {0, NOT_FOUND} :
          LET input == shell.current[1].input
              s1 == [shell EXCEPT !.activeChild = FALSE, !.child = "none"]
          IN  /\ code = NOT_FOUND => input[1] = "typo"
              /\ code = 0 => (input[1] # "typo" \/ shell.signalled)
              /\ IF code # NOT_FOUND THEN TypoStep(resolveDispatch(s1), last)
                 \* promptLine() returns "" at once when closing
                 ELSE IF s1.isClosing
                 THEN TypoStep(afterPrompt(s1, input[2], ""),
                               [last EXCEPT !.ran = @ \cup {input[2]}])
                 ELSE TypoStep([s1 EXCEPT !.pendingInputResolve = TRUE,
                                          !.current = Some([@[1] EXCEPT !.at = "prompt"])],
                               last)

TypoSigint == ShellSigint /\ UNCHANGED last

TypoClose == ShellClose /\ UNCHANGED last

NextTypo ==
    \/ TypoLine
    \/ TypoAnswer
    \/ TypoChildClose
    \/ TypoSigint
    \/ TypoClose
    \/ ShellDone
    \/ ShellSocketError
    \/ ShellHangup
    \/ ShellSocketClosed
    \/ ShellDrain

SpecTypo == InitTypo /\ [][NextTypo]_vars


(***************************************************************************)
(* SpecEst: the token estimator over texts put together from pieces: a     *)
(* piece is one to MaxRepeat copies of one character, and there is one     *)
(* character for each class the estimator tells apart.                     *)
(***************************************************************************)
\* number of pieces of a text
MaxPieces == 3
\* largest number of copies in a piece
MaxRepeat == 5

\* a letter, a space, a Hangul syllable, a CJK ideograph, a Hiragana letter,
\* a brace, the euro sign, an emoji (a surrogate pair)
EstChars == {<<97>>, <<32>>, <<44032>>, <<20013>>, <<12354>>, <<123>>, <<8364>>,
             <<55357, 56832>>}

RECURSIVE Copies(_, _)
Copies(s, n) == IF n = 0 THEN << >> ELSE s \o Copies(s, n - 1)

InitEst ==
    /\ last = [text |-> << >>, pieces |-> 0, estimate |-> estimateTokens(<< >>)]
    /\ shell = Unused
    /\ host = Unused
    /\ extracting = {}
    /\ cm = Unused
    /\ cm2 = Unused
    /\ clock = 0
    /\ calls = 0
    /\ added = 0
    /\ removed = 0
    /\ half = FALSE
    /\ alive = TRUE
    /\ currentSessionId = Unused
    /\ queryInProgress = FALSE
    /\ activeAbort = Unused
    /\ socks = Unused
    /\ inflight = {}

\* estimateTokens() of the text with one more piece
EstAppend ==
    /\ last.pieces < MaxPieces
    /\ \E c \in EstChars, n \in 1..MaxRepeat :
          LET text == last.text \o Copies(c, n)
          IN  last' = [text |-> text, pieces |-> last.pieces + 1,
                       estimate |-> estimateTokens(text)]
    /\ UNCHANGED <<cm, clock, calls, added, removed, half, host, shell, extracting>>
    /\ UNCHANGED daemonVars

NextEst == EstAppend

SpecEst == InitEst /\ [][NextEst]_vars


(***************************************************************************)
(* SpecContext: the output ring buffer of the shell and the command        *)
(* context built from it.  Outputs of thousands of characters are kept as  *)
(* sequences of runs <<c, n>> (n >= 1 times the code unit c): length,      *)
(* slice(0, n) and concatenation are computed on the runs.                 *)
(***************************************************************************)
MAX_OUTPUT_ENTRIES == 5
MAX_OUTPUT_CHARS == 3000
MAX_CONTEXT_CHARS == 4000

\* number of pushOutput() calls
MaxPushes == 6

\* s.length
RECURSIVE RLen(_)
RLen(s) == IF s = << >> THEN 0 ELSE Head(s)[2] + RLen(Tail(s))

\* s.slice(0, n), n >= 0
RECURSIVE RSlice0(_, _)
RSlice0(s, n) ==
    IF s = << >> \/ n = 0 THEN << >>
    ELSE IF Head(s)[2] <= n
         THEN <<Head(s)>> \o RSlice0(Tail(s), n - Head(s)[2])
         ELSE <<(<<Head(s)[1], n>>)>>

\* a string literal as runs
Runs(s) == [i \in 1..Len(s) |-> <<s[i], 1>>]

\* "\n...[truncated]"
TRUNCATED == Runs(<<10, 46, 46, 46, 91, 116, 114, 117, 110, 99, 97, 116, 101, 100, 93>>)

\* the output that handleShellCommand() stores for the output it captured
storedOutput(output) ==
    IF RLen(output) > MAX_OUTPUT_CHARS
    THEN RSlice0(output, MAX_OUTPUT_CHARS) \o TRUNCATED
    ELSE output

pushOutput(outputBuffer, entry) ==
    LET b == Append(outputBuffer, entry)
    IN  IF Len(b) > MAX_OUTPUT_ENTRIES THEN Tail(b) ELSE b

\* `$ ${entry.command}\n${entry.output}\n`
section(entry) ==
    Runs(<<36, 32>>) \o entry.command \o Runs(<<10>>) \o entry.output \o Runs(<<10>>)

\* the loop of buildCommandContext() from entry i down
RECURSIVE contextLoop(_, _, _, _)
contextLoop(outputBuffer, i, context, remaining) ==
    IF ~(i >= 1 /\ remaining > 0) THEN context
    ELSE LET s == section(outputBuffer[i])
         IN  IF RLen(s) <= remaining
             THEN contextLoop(outputBuffer, i - 1, s \o context, remaining - RLen(s))
             ELSE (RSlice0(s, remaining) \o TRUNCATED) \o context

\* the context, or undefined (defined is FALSE)
buildCommandContext(outputBuffer) ==
    IF Len(outputBuffer) = 0 THEN [defined |-> FALSE, text |-> << >>]
    ELSE LET context == contextLoop(outputBuffer, Len(outputBuffer), << >>,
                                    MAX_CONTEXT_CHARS)
         IN  [defined |-> context # << >>, text |-> context]

\* what the n-th command can be and print: its command line (of the digit
\* n) and the output captured (of the letter a)
CapturedEntries(n) ==
    { [command |-> <<(<<48 + n, cl>>)>>,
       output |-> IF ol = 0 THEN << >> ELSE <<(<<97, ol>>)>>] :
        <<cl, ol>> \in { <<2, 100>>,
                         <<2, MAX_OUTPUT_CHARS + 500>>,
                         <<MAX_CONTEXT_CHARS + 1000, 0>> } }

InitContext ==
    /\ shell = [outputBuffer |-> << >>, pushes |-> 0, built |-> FALSE,
                context |-> [defined |-> FALSE, text |-> << >>],
                dropped |-> << >>]
    /\ host = Unused
    /\ extracting = {}
    /\ cm = Unused
    /\ cm2 = Unused
    /\ clock = 0
    /\ calls = 0
    /\ added = 0
    /\ removed = 0
    /\ half = FALSE
    /\ last = Unused
    /\ alive = TRUE
    /\ currentSessionId = Unused
    /\ queryInProgress = FALSE
    /\ activeAbort = Unused
    /\ socks = Unused
    /\ inflight = {}

\* a shell command closes: its output is stored
ContextPush ==
    /\ shell.pushes < MaxPushes
    /\ \E e \in CapturedEntries(shell.pushes + 1) :
          LET entry == [e EXCEPT !.output = storedOutput(@)]
              b == Append(shell.outputBuffer, entry)
          IN  ShellStep([outputBuffer |-> pushOutput(shell.outputBuffer, entry),
                         pushes |-> shell.pushes + 1, built |-> FALSE,
                         context |-> [defined |-> FALSE, text |-> << >>],
                         dropped |-> IF Len(b) > MAX_OUTPUT_ENTRIES
                                     THEN <<Head(b)>> ELSE << >>])

\* an AI query is sent: the context is built
ContextBuild ==
    /\ ~shell.built
    /\ ShellStep([shell EXCEPT !.context = buildCommandContext(shell.outputBuffer),
                               !.built = TRUE, !.dropped = << >>])

NextContext ==
    \/ ContextPush
    \/ ContextBuild

SpecContext == InitContext /\ [][NextContext]_vars


(***************************************************************************)
(* SpecSlot: the daemon's queries from arrival to the release of the       *)
(* single-flight slot, with topics.json writable or not when build() runs.  *)
(* SpecSlotLive adds that the backend stream of an accepted query does not  *)
(* stay open for ever: StreamThrow(q) is enabled as long as q is in flight, *)
(* so its weak fairness says that the stream throws unless it has ended.    *)
(***************************************************************************)
\* a query frame that arrives while topics.json may be unwritable
ReceiveQueryAnyIO(s) == Query(s, {None}, {DEFAULT_STATE}, {0, 1})

NextSlot ==
    \/ \E s \in Sockets : ClientClose(s)
    \/ \E s \in Sockets : ReceiveQueryAnyIO(s)
    \/ \E q \in inflight : StreamInit(q)
    \/ \E q \in inflight : StreamText(q)
    \/ \E q \in inflight : StreamResult(q)
    \/ \E q \in inflight : StreamEnd(q)
    \/ \E q \in inflight : StreamThrow(q)

SpecSlot == Init /\ [][NextSlot]_vars

SpecSlotLive == SpecSlot /\ WF_vars(\E q \in inflight : StreamThrow(q))


(***************************************************************************)
(* SpecFrame: the framing of the protocol (protocol.ts) over a byte        *)
(* stream.  The writer serializes text messages and writes them to the      *)
(* socket as UTF-8; the stream hands the bytes to the reader's data         *)
(* listener in chunks cut anywhere; the listener appends data.toString() to *)
(* its buffer, runs parseBuffer and keeps the remainder.  The messages are  *)
(* {type: "text", content} with a content of one ASCII letter, one Hangul   *)
(* syllable or one newline, so only code points below U+10000 are encoded.  *)
(***************************************************************************)
\* number of frames the writer writes
MaxFrames == 2

FrameTexts == {T_a, T_ga, <<10>>}

\* {"type":"text","content":"   and   "}
S_textOpen == <<123, 34, 116, 121, 112, 101, 34, 58, 34, 116, 101, 120, 116, 34, 44, 34, 99, 111, 110, 116, 101, 110, 116, 34, 58, 34>>
S_textClose == <<34, 125>>

\* the escapes JSON.stringify makes in a string (quote, backslash, newline)
RECURSIVE JSON_escape(_)
JSON_escape(s) ==
    IF s = << >> THEN << >>
    ELSE (CASE Head(s) = 34 -> <<92, 34>>
            [] Head(s) = 92 -> <<92, 92>>
            [] Head(s) = 10 -> <<92, 110>>
            [] OTHER -> <<Head(s)>>) \o JSON_escape(Tail(s))

JSON_stringify(msg) == S_textOpen \o JSON_escape(msg.content) \o S_textClose

\* serialize(msg)
serialize(msg) == JSON_stringify(msg) \o <<10>>

\* the UTF-8 bytes of a code point below U+10000
utf8(c) ==
    IF c < 128 THEN <<c>>
    ELSE IF c < 2048 THEN <<192 + (c \div 64), 128 + (c % 64)>>
    ELSE <<224 + (c \div 4096), 128 + ((c \div 64) % 64), 128 + (c % 64)>>

\* socket.write(string): the bytes put on the stream
RECURSIVE socket_write(_)
socket_write(s) == IF s = << >> THEN << >> ELSE utf8(Head(s)) \o socket_write(Tail(s))

isContinuation(b) == b >= 128 /\ b <= 191

\* data.toString(): UTF-8 decoding of one chunk on its own; a byte sequence
\* that is not a whole character decodes to U+FFFD
RECURSIVE toString(_)
toString(bytes) ==
    IF bytes = << >> THEN << >>
    ELSE LET b == Head(bytes)
         IN  IF b < 128 THEN <<b>> \o toString(Tail(bytes))
             ELSE IF b >= 194 /\ b <= 223
             THEN IF Len(bytes) >= 2 /\ isContinuation(bytes[2])
                  THEN <<(b - 192) * 64 + bytes[2] - 128>>
                       \o toString(SubSeq(bytes, 3, Len(bytes)))
                  ELSE <<65533>> \o toString(Tail(bytes))
             ELSE IF b >= 224 /\ b <= 239
             THEN IF /\ Len(bytes) >= 2 /\ isContinuation(bytes[2])
                     /\ (b = 224 => bytes[2] >= 160)
                     /\ (b = 237 => bytes[2] <= 159)
                  THEN IF Len(bytes) >= 3 /\ isContinuation(bytes[3])
                       THEN <<(b - 224) * 4096 + (bytes[2] - 128) * 64 + bytes[3] - 128>>
                            \o toString(SubSeq(bytes, 4, Len(bytes)))
                       ELSE <<65533>> \o toString(SubSeq(bytes, 3, Len(bytes)))
                  ELSE <<65533>> \o toString(Tail(bytes))
             ELSE <<65533>> \o toString(Tail(bytes))

\* buffer.split("\n"): cur is the piece being read
RECURSIVE split(_, _)
split(s, cur) ==
    IF s = << >> THEN <<cur>>
    ELSE IF Head(s) = 10 THEN <<cur>> \o split(Tail(s), << >>)
    ELSE split(Tail(s), Append(cur, Head(s)))

\* line.trim()
RECURSIVE trim(_)
trim(s) ==
    IF s = << >> THEN s
    ELSE IF isWhitespace(Head(s)) THEN trim(Tail(s))
    ELSE IF isWhitespace(s[Len(s)]) THEN trim(SubSeq(s, 1, Len(s) - 1))
    ELSE s

\* the string a JSON string body stands for, or <<-1>> ahead of the place
\* where it is not one
RECURSIVE JSON_unescape(_)
JSON_unescape(s) ==
    IF s = << >> THEN << >>
    ELSE IF Head(s) = 92
    THEN IF Len(s) >= 2 /\ s[2] \in {34, 92, 110}
         THEN <<IF s[2] = 110 THEN 10 ELSE s[2]>> \o JSON_unescape(SubSeq(s, 3, Len(s)))
         ELSE <<-1>>
    ELSE IF Head(s) = 34 \/ Head(s) < 32 THEN <<-1>>
    ELSE <<Head(s)>> \o JSON_unescape(Tail(s))

\* JSON.parse(text) of the text of a text message: the message, or a throw
JSON_parse(text) ==
    LET n == Len(text)
        o == Len(S_textOpen)
        body == JSON_unescape(SubSeq(text, o + 1, n - 2))
    IN  IF /\ n >= o + 2
           /\ SubSeq(text, 1, o) = S_textOpen
           /\ SubSeq(text, n - 1, n) = S_textClose
           /\ \A i \in 1..Len(body) : body[i] # -1
        THEN [threw |-> FALSE, value |-> [type |-> "text", content |-> body]]
        ELSE [threw |-> TRUE, value |-> [type |-> "text", content |-> << >>]]

\* the messages of the lines: blank and malformed lines are skipped
RECURSIVE parseLines(_)
parseLines(lines) ==
    IF lines = << >> THEN << >>
    ELSE (IF trim(Head(lines)) # << >> /\ ~JSON_parse(trim(Head(lines))).threw
          THEN <<JSON_parse(trim(Head(lines))).value>>
          ELSE << >>) \o parseLines(Tail(lines))

\* parseBuffer(buffer)
parseBuffer(buffer) ==
    LET lines == split(buffer, << >>)
    IN  [messages |-> parseLines(SubSeq(lines, 1, Len(lines) - 1)),
         remainder |-> lines[Len(lines)]]

InitFrame ==
    /\ shell = [sent |-> << >>, wire |-> << >>, buffer |-> << >>, received |-> << >>]
    /\ host = Unused
    /\ extracting = {}
    /\ cm = Unused
    /\ cm2 = Unused
    /\ clock = 0
    /\ calls = 0
    /\ added = 0
    /\ removed = 0
    /\ half = FALSE
    /\ last = Unused
    /\ alive = TRUE
    /\ currentSessionId = Unused
    /\ queryInProgress = FALSE
    /\ activeAbort = Unused
    /\ socks = Unused
    /\ inflight = {}

\* the writer sends a message: socket.write(serialize(msg))
FrameWrite ==
    /\ Len(shell.sent) < MaxFrames
    /\ \E content \in FrameTexts :
          LET msg == [type |-> "text", content |-> content]
          IN  ShellStep([shell EXCEPT !.sent = Append(@, msg),
                                      !.wire = @ \o socket_write(serialize(msg))])

\* a data event with the next n bytes of the stream
FrameData ==
    \E n \in 1..Len(shell.wire) :
        LET data == SubSeq(shell.wire, 1, n)
            parsed == parseBuffer(shell.buffer \o toString(data))
        IN  ShellStep([shell EXCEPT !.wire = SubSeq(@, n + 1, Len(@)),
                                    !.buffer = parsed.remainder,
                                    !.received = @ \o parsed.messages])

NextFrame ==
    \/ FrameWrite
    \/ FrameData

SpecFrame == InitFrame /\ [][NextFrame]_vars


(***************************************************************************)
(* SpecStart: daemon starts on one machine.  Each start is a client that   *)
(* runs ensureDaemon() and spawns a daemon when isDaemonRunning() says no, *)
(* or a daemon launched directly; the daemon runs start().  Every step is  *)
(* one file-system or socket call, and the steps of different processes    *)
(* interleave freely.  The machine starts clean, or with the socket file   *)
(* (and perhaps the PID file) that a killed daemon left behind.            *)
(***************************************************************************)
\* number of starts (a client and the daemon it spawns have the same number,
\* which is also the daemon's process id)
MaxStarts == 3

Starts == 1..MaxStarts

\* no file at the path
NoFile == 0

\* the process id of a daemon that was killed before the observation began
DeadPid == MaxStarts + 1

\* the places a daemon process can be at between its spawn and its exit
DaemonPcs == {"start", "pidExists", "readPid", "unlinkStale", "writePid",
              "listen", "listening", "shutdownSocket", "shutdownPid"}

\* process.kill(pid, 0) succeeds: the process exists
isProcessAlive(h, pid) == pid \in Starts /\ h.pc[pid] \in DaemonPcs

\* the files a killed daemon leaves behind
StaleFiles ==
    {[sock |-> NoFile, pid |-> NoFile],
     [sock |-> DeadPid, pid |-> DeadPid],
     [sock |-> DeadPid, pid |-> NoFile]}

InitStart ==
    /\ \E f \in StaleFiles :
          host = [sock |-> f.sock, pid |-> f.pid, pc |-> [p \in Starts |-> "none"]]
    /\ shell = Unused
    /\ extracting = {}
    /\ cm = Unused
    /\ cm2 = Unused
    /\ clock = 0
    /\ calls = 0
    /\ added = 0
    /\ removed = 0
    /\ half = FALSE
    /\ last = Unused
    /\ alive = TRUE
    /\ currentSessionId = Unused
    /\ queryInProgress = FALSE
    /\ activeAbort = Unused
    /\ socks = Unused
    /\ inflight = {}

\* process p moves to pc, the files becoming sock and pid
StartStep(p, pc, sock, pid) ==
    /\ host' = [sock |-> sock, pid |-> pid, pc |-> [host.pc EXCEPT ![p] = pc]]
    /\ UNCHANGED <<cm, clock, calls, added, removed, half, last, shell, extracting>>
    /\ UNCHANGED daemonVars

\* the daemon is launched directly (aish-daemon, or aish --start)
Launch(p) ==
    /\ host.pc[p] = "none"
    /\ \A q \in Starts : q < p => host.pc[q] # "none"
    /\ StartStep(p, "start", host.sock, host.pid)

\* a client calls ensureDaemon(): isDaemonRunning() begins
ClientEnsure(p) ==
    /\ host.pc[p] = "none"
    /\ \A q \in Starts : q < p => host.pc[q] # "none"
    /\ StartStep(p, "cSocketExists", host.sock, host.pid)

\* isDaemonRunning(): if (!existsSync(SOCKET_PATH)) return false, and
\* ensureDaemon() spawns the daemon
ClientSocketExists(p) ==
    /\ host.pc[p] = "cSocketExists"
    /\ StartStep(p, IF host.sock = NoFile THEN "start" ELSE "cPidExists",
                 host.sock, host.pid)

\* isDaemonRunning(): if (existsSync(PID_PATH)) ... else return true
ClientPidExists(p) ==
    /\ host.pc[p] = "cPidExists"
    /\ StartStep(p, IF host.pid = NoFile THEN "cRunning" ELSE "cReadPid",
                 host.sock, host.pid)

\* isDaemonRunning(): read the PID file (a throw means return true) and
\* probe the process
ClientReadPid(p) ==
    /\ host.pc[p] = "cReadPid"
    /\ StartStep(p, IF host.pid = NoFile \/ isProcessAlive(host, host.pid)
                    THEN "cRunning" ELSE "cUnlinkSocket",
                 host.sock, host.pid)

\* isDaemonRunning(): try { unlinkSync(SOCKET_PATH) } catch {}
ClientUnlinkSocket(p) ==
    /\ host.pc[p] = "cUnlinkSocket"
    /\ StartStep(p, "cUnlinkPid", NoFile, host.pid)

\* isDaemonRunning(): try { unlinkSync(PID_PATH) } catch {}; return false,
\* and ensureDaemon() spawns the daemon
ClientUnlinkPid(p) ==
    /\ host.pc[p] = "cUnlinkPid"
    /\ StartStep(p, "start", host.sock, NoFile)

\* start(): if (existsSync(SOCKET_PATH))
DaemonSocketExists(p) ==
    /\ host.pc[p] = "start"
    /\ StartStep(p, IF host.sock = NoFile THEN "writePid" ELSE "pidExists",
                 host.sock, host.pid)

\* start(): if (existsSync(PID_PATH))
DaemonPidExists(p) ==
    /\ host.pc[p] = "pidExists"
    /\ StartStep(p, IF host.pid = NoFile THEN "unlinkStale" ELSE "readPid",
                 host.sock, host.pid)

\* start(): read the PID file and probe the process: exit(1) when it is
\* alive; a throw of readFileSync is caught and the socket is taken as stale
DaemonReadPid(p) ==
    /\ host.pc[p] = "readPid"
    /\ StartStep(p, IF host.pid # NoFile /\ isProcessAlive(host, host.pid)
                    THEN "refused" ELSE "unlinkStale",
                 host.sock, host.pid)

\* start(): unlinkSync(SOCKET_PATH); exit(1) when it throws
DaemonUnlinkStale(p) ==
    /\ host.pc[p] = "unlinkStale"
    /\ StartStep(p, IF host.sock = NoFile THEN "failed" ELSE "writePid",
                 NoFile, host.pid)

\* start(): writeFileSync(PID_PATH, String(process.pid))
DaemonWritePid(p) ==
    /\ host.pc[p] = "writePid"
    /\ StartStep(p, "listen", host.sock, p)

\* server.listen(SOCKET_PATH): bind creates the socket file, or fails with
\* EADDRINUSE when the path exists and the error handler calls shutdown()
DaemonListen(p) ==
    /\ host.pc[p] = "listen"
    /\ IF host.sock = NoFile
       THEN StartStep(p, "listening", p, host.pid)
       ELSE StartStep(p, "shutdownSocket", host.sock, host.pid)

\* shutdown(): if (existsSync(SOCKET_PATH)) unlinkSync(SOCKET_PATH)
DaemonShutdownSocket(p) ==
    /\ host.pc[p] = "shutdownSocket"
    /\ StartStep(p, "shutdownPid", NoFile, host.pid)

\* shutdown(): if (existsSync(PID_PATH)) unlinkSync(PID_PATH); process.exit(0)
DaemonShutdownPid(p) ==
    /\ host.pc[p] = "shutdownPid"
    /\ StartStep(p, "exited", host.sock, NoFile)

NextStart ==
    \/ \E p \in Starts : Launch(p)
    \/ \E p \in Starts : ClientEnsure(p)
    \/ \E p \in Starts : ClientSocketExists(p)
    \/ \E p \in Starts : ClientPidExists(p)
    \/ \E p \in Starts : ClientReadPid(p)
    \/ \E p \in Starts : ClientUnlinkSocket(p)
    \/ \E p \in Starts : ClientUnlinkPid(p)
    \/ \E p \in Starts : DaemonSocketExists(p)
    \/ \E p \in Starts : DaemonPidExists(p)
    \/ \E p \in Starts : DaemonReadPid(p)
    \/ \E p \in Starts : DaemonUnlinkStale(p)
    \/ \E p \in Starts : DaemonWritePid(p)
    \/ \E p \in Starts : DaemonListen(p)
    \/ \E p \in Starts : DaemonShutdownSocket(p)
    \/ \E p \in Starts : DaemonShutdownPid(p)

SpecStart == InitStart /\ [][NextStart]_vars


(***************************************************************************)
(* SpecTopics: the TopicManager alone.  It is constructed over a file      *)
(* (missing, not JSON, JSON of another shape, or a list that save() wrote,  *)
(* up to a full one), then topics are inserted, looked up, and the store is *)
(* constructed again over what the file holds by then.  The writes of the   *)
(* inserts succeed; the write of a migrating load can fail.  Date.now()     *)
(* reads a later time at every call (the number of calls made so far).      *)
(***************************************************************************)
\* number of calls a run of SpecTopics or SpecMem makes after the load
MaxStoreCalls == 3

\* the i-th topic of a saved file: "t<i>" with the summary "a"
FileTopic(i) ==
    [name |-> <<116>> \o Digits(i), summary |-> T_a, ts |-> 0,
     tokens |-> estimateTokens(T_a)]

SavedTopics(n) == [i \in 1..n |-> FileTopic(i)]

TopicsFile(shape, topics) == [exists |-> TRUE, shape |-> shape, topics |-> topics]

\* what topics.json can hold when the store is constructed
TopicFiles ==
    {Topic_new.file, TopicsFile("garbage", << >>), TopicsFile("object", << >>)}
    \cup {TopicsFile("list", SavedTopics(n)) : n \in {0, MAX_TOPICS - 1, MAX_TOPICS}}
    \cup {TopicsFile("list", <<[FileTopic(1) EXCEPT !.tokens = @ + 1]>>),
          TopicsFile("list", <<[FileTopic(1) EXCEPT !.name = Undefined]>>),
          TopicsFile("list", <<[FileTopic(1) EXCEPT !.summary = Undefined]>>)}

\* a file that is missing, not JSON, or JSON of another shape than a list of
\* topics
TopicFileCorrupt(file) ==
    \/ ~file.exists
    \/ file.shape # "list"
    \/ \E i \in 1..Len(file.topics) :
          file.topics[i].name = Undefined \/ file.topics[i].summary = Undefined

\* the two turns ContextManager.addTurn records for an exchange
PairTurns(p) ==
    Window_addTurn(Window_addTurn(Window_new(0), "user", p[1]), "assistant", p[2]).turns

\* "T1" and "n<k>": the first name of a saved file in the other case, and a
\* name no topic has
T_T1 == <<84, 49>>
FreshName(k) == <<110>> \o Digits(k)

\* the arguments of addFromTurns: the evicted turns, and the name when the
\* caller gives one
TopicsFromTurns ==
    {<<p, None>> : p \in TurnPairs} \cup {<<<<T_abc, T_empty>>, Some(T_ABC)>>}

TopicNamesOf(topics) == [i \in 1..Len(topics) |-> topics[i].name]

\* the last n elements of a list
LastN(list, n) == SubSeq(list, Max(1, Len(list) - n + 1), Len(list))

\* history of the store: the last call, the names in the order their topics
\* were created since the load (an overwrite keeps the place of the topic it
\* overwrites) and the names in the order of the insert calls
TopicsLoaded(tp, file) ==
    [op |-> "load", threw |-> FALSE, found |-> FALSE,
     corrupt |-> TopicFileCorrupt(file),
     order |-> TopicNamesOf(tp.topics), inserted |-> TopicNamesOf(tp.topics)]

InitTopics ==
    /\ \E file \in TopicFiles, ok \in BOOLEAN :
          /\ cm = [CM_new(1) EXCEPT !.topics = Topic_load(file, ok)]
          /\ last = TopicsLoaded(Topic_load(file, ok), file)
    /\ clock = 0
    /\ calls = 0
    /\ added = 0
    /\ removed = 0
    /\ half = FALSE
    /\ cm2 = CM_new(1)
    /\ alive = TRUE
    /\ currentSessionId = << >>
    /\ queryInProgress = FALSE
    /\ activeAbort = << >>
    /\ socks = << >>
    /\ inflight = {}
    /\ host = Unused
    /\ shell = Unused
    /\ extracting = {}

\* the store is constructed again (the daemon is restarted)
TopicsRestart ==
    /\ calls < MaxStoreCalls
    /\ \E ok \in BOOLEAN :
          /\ cm' = [cm EXCEPT !.topics = Topic_load(cm.topics.file, ok)]
          /\ last' = TopicsLoaded(Topic_load(cm.topics.file, ok), cm.topics.file)
    /\ calls' = calls + 1
    /\ UNCHANGED <<clock, added, removed, half>>
    /\ UNCHANGED daemonVars
    /\ UNCHANGED envVars

TopicsAddFromTurns ==
    /\ calls < MaxStoreCalls
    /\ \E a \in TopicsFromTurns :
          LET r == Topic_addFromTurns(cm.topics, PairTurns(a[1]), a[2], calls, TRUE)
          IN  /\ cm' = [cm EXCEPT !.topics = r.store]
              /\ last' = [last EXCEPT !.op = "addFromTurns", !.threw = r.threw,
                                      !.found = FALSE,
                                      !.order = Append(@, r.topic.name),
                                      !.inserted = Append(@, r.topic.name)]
    /\ calls' = calls + 1
    /\ UNCHANGED <<clock, added, removed, half>>
    /\ UNCHANGED daemonVars
    /\ UNCHANGED envVars

TopicsAddManual ==
    /\ calls < MaxStoreCalls
    /\ \E name \in {T_ABC, T_T1, FreshName(calls)} :
          LET r == Topic_addManual(cm.topics, name, T_abc, calls, TRUE)
              idx == Topic_findIndex(cm.topics, name)
              place == Len(last.order) - Len(cm.topics.topics) + idx
          IN  /\ cm' = [cm EXCEPT !.topics = r.store]
              /\ last' = IF Topic_findThrows(cm.topics, name)
                         THEN [last EXCEPT !.op = "addManual", !.threw = TRUE,
                                           !.found = FALSE]
                         ELSE [last EXCEPT !.op = "addManual", !.threw = r.threw,
                                           !.found = idx > 0,
                                           !.order = IF idx > 0
                                                     THEN [@ EXCEPT ![place] = name]
                                                     ELSE Append(@, name),
                                           !.inserted = Append(@, name)]
    /\ calls' = calls + 1
    /\ UNCHANGED <<clock, added, removed, half>>
    /\ UNCHANGED daemonVars
    /\ UNCHANGED envVars

TopicsGet ==
    /\ calls < MaxStoreCalls
    /\ \E name \in TopicNames :
          last' = [last EXCEPT !.op = "get",
                               !.threw = Topic_findThrows(cm.topics, name),
                               !.found = ~Topic_findThrows(cm.topics, name)
                                         /\ Topic_get(cm.topics, name) # None]
    /\ calls' = calls + 1
    /\ UNCHANGED <<cm, clock, added, removed, half>>
    /\ UNCHANGED daemonVars
    /\ UNCHANGED envVars

NextTopics ==
    \/ TopicsRestart
    \/ TopicsAddFromTurns
    \/ TopicsAddManual
    \/ TopicsGet

SpecTopics == InitTopics /\ [][NextTopics]_vars

(***************************************************************************)
(* SpecPrompt: the ContextManager with a Memory that facts are put into:   *)
(* exchanges are recorded, facts remembered, the Window is compacted, all   *)
(* is cleared, and prompts are built.                                       *)
(***************************************************************************)
\* the daemon's remember command: contextManager.memory.remember(fact)
CMRemember ==
    /\ calls < MaxCalls
    /\ \E fact \in {T_abc, K_rule} :
          cm' = [cm EXCEPT !.memory = Memory_remember(@, fact, TRUE).memory]
    /\ last' = Call("remember", cm, FALSE, << >>)
    /\ calls' = calls + 1
    /\ UNCHANGED <<clock, added, removed, half>>
    /\ UNCHANGED daemonVars
    /\ UNCHANGED envVars

NextPrompt ==
    \/ CMBuild
    \/ CMAddTurn
    \/ CMRemember
    \/ CMCompact
    \/ CMClearAll

SpecPrompt == InitCM /\ [][NextPrompt]_vars

(***************************************************************************)
(* SpecTopicCost: the TopicManager with all the calls that change its      *)
(* list: the inserts, remove(), clear() and the load of a restart.         *)
(***************************************************************************)
TopicsRemove ==
    /\ calls < MaxStoreCalls
    /\ \E name \in {T_ABC, T_T1, FreshName(calls)} :
          LET r == Topic_remove(cm.topics, name, TRUE)
              idx == Topic_findIndex(cm.topics, name)
              place == Len(last.order) - Len(cm.topics.topics) + idx
          IN  /\ cm' = [cm EXCEPT !.topics = r.store]
              /\ last' = [last EXCEPT !.op = "remove", !.threw = r.threw,
                                      !.found = r.found,
                                      !.order = IF r.found
                                                THEN SubSeq(@, 1, place - 1)
                                                     \o SubSeq(@, place + 1, Len(@))
                                                ELSE @]
    /\ calls' = calls + 1
    /\ UNCHANGED <<clock, added, removed, half>>
    /\ UNCHANGED daemonVars
    /\ UNCHANGED envVars

TopicsClear ==
    /\ calls < MaxStoreCalls
    /\ cm' = [cm EXCEPT !.topics = Topic_clear(cm.topics, TRUE).store]
    /\ last' = [last EXCEPT !.op = "clear", !.threw = FALSE, !.found = FALSE,
                            !.order = << >>]
    /\ calls' = calls + 1
    /\ UNCHANGED <<clock, added, removed, half>>
    /\ UNCHANGED daemonVars
    /\ UNCHANGED envVars

NextTopicCost ==
    \/ TopicsRestart
    \/ TopicsAddFromTurns
    \/ TopicsAddManual
    \/ TopicsRemove
    \/ TopicsClear

SpecTopicCost == InitTopics /\ [][NextTopicCost]_vars

(***************************************************************************)
(* SpecMemo: the TopicManager with its memoized prompt: the store is       *)
(* loaded from a file, its list is changed by addFromTurns, addManual,      *)
(* remove and clear, each with a write that succeeds or throws, and         *)
(* buildPrompt() is called in between.  last is the last call, what it      *)
(* returned and the version counter before it.                              *)
(***************************************************************************)
MemoCall(op, threw, prompt) ==
    [op |-> op, threw |-> threw, prompt |-> prompt, preVersion |-> cm.topics.version]

InitMemo ==
    /\ \E file \in {Topic_new.file, TopicsFile("list", SavedTopics(1)),
                     TopicsFile("list", SavedTopics(MAX_TOPICS))} :
          cm = [CM_new(1) EXCEPT !.topics = Topic_load(file, TRUE)]
    /\ last = [op |-> "load", threw |-> FALSE, prompt |-> None, preVersion |-> 0]
    /\ clock = 0
    /\ calls = 0
    /\ added = 0
    /\ removed = 0
    /\ half = FALSE
    /\ cm2 = CM_new(1)
    /\ alive = TRUE
    /\ currentSessionId = << >>
    /\ queryInProgress = FALSE
    /\ activeAbort = << >>
    /\ socks = << >>
    /\ inflight = {}
    /\ host = Unused
    /\ shell = Unused
    /\ extracting = {}

\* a call of a method of the store that leaves it as store
MemoStep(store, op, threw, prompt) ==
    /\ calls < MaxStoreCalls
    /\ cm' = [cm EXCEPT !.topics = store]
    /\ last' = MemoCall(op, threw, prompt)
    /\ calls' = calls + 1
    /\ UNCHANGED <<clock, added, removed, half>>
    /\ UNCHANGED daemonVars
    /\ UNCHANGED envVars

MemoAddFromTurns ==
    \E p \in TurnPairs, ok \in BOOLEAN :
        LET r == Topic_addFromTurns(cm.topics, PairTurns(p), None, calls, ok)
        IN  MemoStep(r.store, "addFromTurns", r.threw, None)

MemoAddManual ==
    \E name \in {T_T1, FreshName(calls)}, ok \in BOOLEAN :
        LET r == Topic_addManual(cm.topics, name, T_abc, calls, ok)
        IN  MemoStep(r.store, "addManual", r.threw, None)

MemoRemove ==
    \E name \in {T_T1, FreshName(calls)}, ok \in BOOLEAN :
        LET r == Topic_remove(cm.topics, name, ok)
        IN  MemoStep(r.store, "remove", r.threw, None)

MemoClear ==
    \E ok \in BOOLEAN :
        LET r == Topic_clear(cm.topics, ok)
        IN  MemoStep(r.store, "clear", r.threw, None)

MemoBuildPrompt ==
    LET r == Topic_buildPrompt(cm.topics)
    IN  MemoStep(r.store, "buildPrompt", FALSE, Some(r.prompt))

NextMemo ==
    \/ MemoAddFromTurns
    \/ MemoAddManual
    \/ MemoRemove
    \/ MemoClear
    \/ MemoBuildPrompt

SpecMemo == InitMemo /\ [][NextMemo]_vars

(***************************************************************************)
(* SpecMem: the Memory store alone.  It is constructed over a file         *)
(* (missing, not JSON, JSON of another shape, or a store that save() wrote, *)
(* up to one with a full recent list), then facts are remembered, batches   *)
(* are merged, the prompt is built, and the store is constructed again over *)
(* what the file holds by then.  The writes succeed.                        *)
(***************************************************************************)
\* "Rule", "rule chose"
T_Rule == <<82, 117, 108, 101>>
T_ruleChose == K_rule \o <<32>> \o K_chose

\* the facts a caller remembers: a convention in either case, a decision, a
\* fact with a keyword of both classes, and two facts with none
Facts(k) == {K_rule, T_Rule, K_chose, T_ruleChose, T_abc, FreshName(k)}

\* the batches an extraction merges
Extractions(k) ==
    {NoData,
     [NoData EXCEPT !.has = {"project"}, !.project = << <<T_a, T_abc>> >>],
     [NoData EXCEPT !.has = {"conventions", "decisions"},
                    !.conventions = <<K_rule, T_abc, K_rule>>,
                    !.decisions = <<K_chose>>],
     [NoData EXCEPT !.has = {"recentWork"}, !.recentWork = <<FreshName(k), T_abc>>]}

\* the recent list of a saved file: "r1" .. "r<n>"
SavedRecent(n) == [i \in 1..n |-> <<114>> \o Digits(i)]

MemoryFile(shape, store) == [exists |-> TRUE, shape |-> shape, store |-> store]

\* what memory.json can hold when the store is constructed
MemoryFiles ==
    {Memory_new.file, MemoryFile("garbage", EmptyStore), MemoryFile("object", EmptyStore),
     MemoryFile("object", [EmptyStore EXCEPT !.absent =
                              {"project", "conventions", "decisions", "recentWork"}]),
     MemoryFile("object", [EmptyStore EXCEPT !.absent = {"recentWork"}]),
     MemoryFile("object", [EmptyStore EXCEPT !.conventions = <<K_rule>>])}
    \cup {MemoryFile("object", [EmptyStore EXCEPT !.recentWork = SavedRecent(n)]) :
             n \in {MAX_RECENT_WORK - 1, MAX_RECENT_WORK}}

\* a file that is missing, not JSON, or JSON of another shape than a store
MemoryFileCorrupt(file) ==
    ~file.exists \/ file.shape # "object" \/ file.store.absent # {}

\* history of the store: the last call, its argument, the store before it,
\* and every item appended to the recent list since the load (the loaded
\* ones first)
MemoryLoaded(m, file) ==
    [op |-> "load", threw |-> FALSE, fact |-> << >>, pre |-> m.store,
     corrupt |-> MemoryFileCorrupt(file), recents |-> m.store.recentWork]

InitMem ==
    /\ \E file \in MemoryFiles :
          /\ cm = [CM_new(1) EXCEPT !.memory = Memory_load(file)]
          /\ last = MemoryLoaded(Memory_load(file), file)
    /\ clock = 0
    /\ calls = 0
    /\ added = 0
    /\ removed = 0
    /\ half = FALSE
    /\ cm2 = CM_new(1)
    /\ alive = TRUE
    /\ currentSessionId = << >>
    /\ queryInProgress = FALSE
    /\ activeAbort = << >>
    /\ socks = << >>
    /\ inflight = {}
    /\ host = Unused
    /\ shell = Unused
    /\ extracting = {}

\* the store is constructed again (the daemon is restarted)
MemRestart ==
    /\ calls < MaxStoreCalls
    /\ cm' = [cm EXCEPT !.memory = Memory_load(cm.memory.file)]
    /\ last' = MemoryLoaded(Memory_load(cm.memory.file), cm.memory.file)
    /\ calls' = calls + 1
    /\ UNCHANGED <<clock, added, removed, half>>
    /\ UNCHANGED daemonVars
    /\ UNCHANGED envVars

MemRemember ==
    /\ calls < MaxStoreCalls
    /\ \E fact \in Facts(calls) :
          LET r == Memory_remember(cm.memory, fact, TRUE)
          IN  /\ cm' = [cm EXCEPT !.memory = r.memory]
              /\ last' = [last EXCEPT !.op = "remember", !.threw = r.threw,
                                      !.fact = fact, !.pre = cm.memory.store,
                                      !.recents =
                                          IF r.memory.store.recentWork
                                             # cm.memory.store.recentWork
                                          THEN Append(@, fact) ELSE @]
    /\ calls' = calls + 1
    /\ UNCHANGED <<clock, added, removed, half>>
    /\ UNCHANGED daemonVars
    /\ UNCHANGED envVars

MemMergeExtracted ==
    /\ calls < MaxStoreCalls
    /\ \E data \in Extractions(calls) :
          LET r == Memory_mergeExtracted(cm.memory, data, TRUE)
          IN  /\ cm' = [cm EXCEPT !.memory = r.memory]
              /\ last' = [last EXCEPT !.op = "mergeExtracted", !.threw = r.threw,
                                      !.fact = << >>, !.pre = cm.memory.store,
                                      !.recents =
                                          IF "recentWork" \in data.has /\ ~r.threw
                                          THEN @ \o data.recentWork ELSE @]
    /\ calls' = calls + 1
    /\ UNCHANGED <<clock, added, removed, half>>
    /\ UNCHANGED daemonVars
    /\ UNCHANGED envVars

MemBuildPrompt ==
    /\ calls < MaxStoreCalls
    /\ last' = [last EXCEPT !.op = "buildPrompt",
                            !.threw = Memory_buildPromptThrows(cm.memory),
                            !.fact = IF Memory_buildPromptThrows(cm.memory) THEN << >>
                                     ELSE Memory_buildPrompt(cm.memory),
                            !.pre = cm.memory.store]
    /\ calls' = calls + 1
    /\ UNCHANGED <<cm, clock, added, removed, half>>
    /\ UNCHANGED daemonVars
    /\ UNCHANGED envVars

NextMem ==
    \/ MemRestart
    \/ MemRemember
    \/ MemMergeExtracted
    \/ MemBuildPrompt

SpecMem == InitMem /\ [][NextMem]_vars

(***************************************************************************)
(* SpecE2E: a ContextManager with an empty Window and an empty Topic store *)
(* records exchanges whose assistant reply costs more than a third of the  *)
(* window budget, and build() runs after each of them (that is where       *)
(* trimIfNeeded() and addFromTurns() are called).                          *)
(***************************************************************************)
\* number of exchanges a run of SpecE2E records
MaxPairs == 3

\* the exchanges: a user message of cost 0 or 1, a reply of cost 1, 2 or 3
E2EPairs == {<<u, a>> : u \in {T_empty, T_abc}, a \in {T_abc, T_ga, T_gaga}}

\* history: the last call and every turn recorded so far
E2ENew == [op |-> "new", turns |-> << >>, evicted |-> << >>]

InitE2E ==
    /\ cm \in {CM_new(b) : b \in 1..MaxBudget}
    /\ last = E2ENew
    /\ clock = 0
    /\ calls = 0
    /\ added = 0
    /\ removed = 0
    /\ half = FALSE
    /\ cm2 = CM_new(1)
    /\ alive = TRUE
    /\ currentSessionId = << >>
    /\ queryInProgress = FALSE
    /\ activeAbort = << >>
    /\ socks = << >>
    /\ inflight = {}
    /\ host = Unused
    /\ shell = Unused
    /\ extracting = {}

E2EAddTurn ==
    /\ last.op \in {"new", "build"}
    /\ calls < MaxPairs
    /\ \E p \in E2EPairs :
          /\ 3 * estimateTokens(p[2]) > cm.window.maxTokens
          /\ cm' = CM_addTurn(cm, p[1], p[2])
          /\ last' = [last EXCEPT !.op = "addTurn", !.turns = @ \o PairTurns(p),
                                  !.evicted = << >>]
    /\ calls' = calls + 1
    /\ UNCHANGED <<clock, added, removed, half>>
    /\ UNCHANGED daemonVars
    /\ UNCHANGED envVars

E2EBuild ==
    /\ last.op = "addTurn"
    /\ LET r == CM_build(cm, None, DEFAULT_STATE, clock, 0)
       IN  /\ cm' = r.cm
           /\ last' = [last EXCEPT !.op = "build", !.evicted = r.evicted]
    /\ UNCHANGED <<clock, calls, added, removed, half>>
    /\ UNCHANGED daemonVars
    /\ UNCHANGED envVars

NextE2E == E2EAddTurn \/ E2EBuild

SpecE2E == InitE2E /\ [][NextE2E]_vars

(***************************************************************************)
(* Claims about the Window, checked under SpecWin.                         *)
(***************************************************************************)

\* C8: for every sequence of Window.addTurn calls (nothing evicted or cleared
\* yet), Window.count() is floor(total turns added / 2); and after a
\* trimIfNeeded() the Window holds an even number of turns.
C8_CountIsHalfOfAdded ==
    /\ (removed = 0 => Window_count(cm.window) = added \div 2)
    /\ (last.op = "trimIfNeeded" => Len(cm.window.turns) % 2 = 0)

\* C8 witness: a trimIfNeeded() that evicted, after three pairs were added
\* one turn at a time.
C8_Witness ==
    /\ last.op = "trimIfNeeded"
    /\ Len(last.evicted) > 0
    /\ added = 6
    /\ Window_count(cm.window) = 1

\* C9: a trimIfNeeded() that directly follows a trimIfNeeded() returns no
\* evicted turn and leaves the turn list and the running cost as they were.
C9_TrimIdempotent ==
    (last.op = "trimIfNeeded" /\ last.prev.op = "trimIfNeeded")
        => /\ last.evicted = << >>
           /\ cm.window.turns = last.preTurns
           /\ Window_estimateTokens(cm.window) = last.preTokens

\* C9 witness: a second trimIfNeeded() right after one that evicted, with the
\* Window still over its budget.
C9_Witness ==
    /\ last.op = "trimIfNeeded"
    /\ last.prev.op = "trimIfNeeded"
    /\ Len(last.prev.evicted) > 0
    /\ cm.window.currentTokens > cm.window.maxTokens

\* C10: after trimIfNeeded() either the running cost is within the budget or
\* exactly one pair of turns remains.
C10_BudgetContainment ==
    last.op = "trimIfNeeded"
        => \/ Window_estimateTokens(cm.window) <= cm.window.maxTokens
           \/ (Window_count(cm.window) = 1 /\ Len(cm.window.turns) = 2)

\* C10 witness: a trimIfNeeded() that evicted two pairs and still leaves the
\* Window over its budget, with the last pair in it.
C10_Witness ==
    /\ last.op = "trimIfNeeded"
    /\ Len(last.evicted) = 4
    /\ Window_estimateTokens(cm.window) > cm.window.maxTokens
    /\ Len(cm.window.turns) = 2

(***************************************************************************)
(* Claims about the ContextManager's dirty flag, checked under SpecCM.     *)
(***************************************************************************)
AdminOps == {"compact", "clearWindow", "clearAll", "switchTopic", "recallTopic"}

C7_NextBuildReportsOnce ==
    /\ (last.op = "build" /\ ~last.threw)
           => /\ last.needsNewSession = (last.preDirty \/ Len(last.evicted) > 0)
              /\ ~cm.sessionDirty
    /\ (last.op = "build" /\ last.threw) => cm.sessionDirty = last.preDirty
    /\ (last.op = "build" /\ last.prev.op = "build" /\ ~last.prev.threw)
           => /\ ~last.threw
              /\ ~last.needsNewSession
              /\ last.evicted = << >>

\* C7 witness: two build() calls in a row, the first on a dirty manager and
\* reporting needsNewSession, the second reporting false.
C7_Witness ==
    /\ last.op = "build"
    /\ last.prev.op = "build"
    /\ last.prev.needsNewSession
    /\ last.prev.evicted = << >>
    /\ ~last.needsNewSession
    /\ ~cm.sessionDirty

(***************************************************************************)
(* Claims about the daemon, checked under Spec.                            *)
(***************************************************************************)

C2_ExactlyOneDone ==
    /\ (last.op \in {"query", "request"} /\ last.outcome # "accepted" /\ last.open)
           => /\ Len(SelectSeq(last.frames, LAMBDA f : f = "done")) = 1
              /\ last.frames[Len(last.frames)] = "done"
    /\ \A q \in inflight :
           /\ Len(SelectSeq(q.frames, LAMBDA f : f = "done")) = 0
           /\ socks[q.sock] = "open" => alive

\* C3: when the backend call of an accepted query has failed (the stream
\* threw, or ended after a result that is not a success), the client has an
\* error frame and then done, the end of the query added no turn, and, no
\* command having come in between, Window, Topics, Memory and turnCount are
\* as they were when the query frame arrived.
C3_FailureLeavesState ==
    (last.op = "query" /\ last.outcome \in {"failed", "error"})
        => /\ last.open
                => /\ \E i \in 1..Len(last.frames) : last.frames[i] = "error"
                   /\ last.frames[Len(last.frames)] = "done"
           /\ cm.window.turns = last.preTurns
           /\ cm.turnCount = last.preTurnCount
           /\ ~last.disturbed => Snapshot(cm) = last.atAccept

C5_ContextNeverInWindow ==
    /\ cm.window = cm2.window
    /\ cm.topics = cm2.topics
    /\ cm.turnCount = cm2.turnCount
    /\ (last.op = "query" /\ last.outcome = "success")
           => /\ cm.window.turns = last.preTurns \o
                     <<[role |-> "user", content |-> last.user,
                        tokens |-> estimateTokens(last.user)],
                       [role |-> "assistant", content |-> last.text,
                        tokens |-> estimateTokens(last.text)]>>
              /\ cm.turnCount = last.preTurnCount + 1

\* C5 witness: the second successful query has just ended; the Window holds
\* the two exchanges.
C5_Witness ==
    /\ last.op = "query"
    /\ last.outcome = "success"
    /\ Len(last.text) > 0
    /\ Len(cm.window.turns) = 4


(***************************************************************************)
(* Claims about the Topic store, checked under SpecTopics.                 *)
(***************************************************************************)

C12_NamesUnique ==
    \A i, j \in 1..Len(cm.topics.topics) :
        i < j => toLowerCase(cm.topics.topics[i].name)
                 # toLowerCase(cm.topics.topics[j].name)

(***************************************************************************)
(* Claims about the Memory store, checked under SpecMem.                   *)
(***************************************************************************)

\* no item occurs twice in the list
NoDuplicates(list) == \A i, j \in 1..Len(list) : i < j => list[i] # list[j]

C14_RecentBounded ==
    /\ Len(cm.memory.store.recentWork) <= 10
    /\ cm.memory.store.recentWork = LastN(last.recents, 10)

\* C14 witness: a batch of two items was merged into a full recent list, and
\* the two oldest items were dropped
C14_Witness ==
    /\ last.op = "mergeExtracted" /\ ~last.threw
    /\ Len(last.pre.recentWork) = 10
    /\ Len(last.recents) = 12
    /\ cm.memory.store.recentWork[1] = SavedRecent(3)[3]

\* C15: a store constructed over a file that is missing, not JSON, or JSON of
\* another shape is in its default shape, and no later operation on it
\* raises.
C15_CorruptLoadDefaults ==
    last.corrupt =>
        /\ last.op = "load" => cm.memory.store = EmptyStore
        /\ ~last.threw

(***************************************************************************)
(* Claim about eviction end to end, checked under SpecE2E.                 *)
(***************************************************************************)

\* after the third build(): one turn-pair, the most recent, remains, and one
\* topic exists that summarizes the two other pairs
E2EOutcome ==
    /\ Window_count(cm.window) = 1
    /\ cm.window.turns = SubSeq(last.turns, 5, 6)
    /\ Topic_count(cm.topics) = 1
    /\ cm.topics.topics[1].summary = Join(summaryParts(SubSeq(last.turns, 1, 4), 1), S_bar)

\* the cost of the i-th recorded exchange
E2ECost(i) == last.turns[2 * i - 1].tokens + last.turns[2 * i].tokens

\* C16 (as stated): from an empty Window and Topic store, after three
\* turn-pairs whose assistant replies each cost more than a third of the
\* window budget, with eviction run after each pair, exactly one pair (the
\* most recent) remains after the third trimIfNeeded() and exactly one Topic
\* has been created, summarizing the other two pairs.
C16_Original ==
    (last.op = "build" /\ Len(last.turns) = 6) => E2EOutcome

\* C16 (amended): the same, for three turn-pairs engineered so that the
\* first two together fit the window budget and the last two together do
\* not: then nothing is evicted before the third trimIfNeeded(), which evicts
\* the first two pairs at once into one Topic.
C16_EndToEnd ==
    (/\ last.op = "build" /\ Len(last.turns) = 6
     /\ E2ECost(1) + E2ECost(2) <= cm.window.maxTokens
     /\ E2ECost(2) + E2ECost(3) > cm.window.maxTokens)
    => E2EOutcome

\* C16 witness: the third build evicted the first two pairs
C16_Witness ==
    /\ last.op = "build" /\ Len(last.turns) = 6
    /\ E2ECost(1) + E2ECost(2) <= cm.window.maxTokens
    /\ E2ECost(2) + E2ECost(3) > cm.window.maxTokens
    /\ last.evicted = SubSeq(last.turns, 1, 4)
    /\ Topic_count(cm.topics) = 1

\* C17: shouldExtractMemory() is true iff turnCount > 0 and turnCount is a
\* multiple of MEMORY_EXTRACT_INTERVAL, and the daemon calls extractMemory()
\* exactly after a successfully ended query that made turnCount such a
\* multiple: never after a failed, cancelled or rejected query.  (Violated: a
\* query whose result message is not a success is recorded by addTurn like
\* any other, and extractMemory() is called after it when it is the fifth.)
C17_ExtractionGate ==
    /\ CM_shouldExtractMemory(cm)
          <=> (cm.turnCount > 0 /\ cm.turnCount % MEMORY_EXTRACT_INTERVAL = 0)
    /\ (last.op = "query" /\ last.outcome # "accepted")
          => (last.extract
                <=> /\ last.outcome = "success"
                    /\ cm.turnCount = last.preTurnCount + 1
                    /\ cm.turnCount % MEMORY_EXTRACT_INTERVAL = 0)

\* C18: every inbound line that is not valid JSON, and every frame that
\* isValidClientMessage rejects, is answered at once with an error frame
\* followed by done; the daemon stays alive, the connection stays open and a
\* query in flight is left as it was.  (Violated: a line that is not JSON is
\* dropped by parseBuffer and nothing is written for it.)
C18_InvalidAnswered ==
    (last.op = "malformed" \/ (last.op = "request" /\ last.cmd = "invalid"))
        => /\ last.frames = <<"error", "done">>
           /\ alive
           /\ \E s \in Sockets : socks[s] = "open"

\* the commands after which the daemon sets currentSessionId to null
ResetCommands == {"clear", "compact", "forget", "topic", "recall"}

C20_ClearWindowFrame ==
    [][(last'.op = "request" /\ last'.cmd = "clear" /\ calls' = calls + 1)
          => /\ cm'.window.turns = << >>
             /\ cm'.window.currentTokens = 0
             /\ cm'.window.maxTokens = cm.window.maxTokens
             /\ cm'.topics = cm.topics
             /\ cm'.memory = cm.memory
             /\ cm'.turnCount = cm.turnCount]_vars

\* C20 witness: clear has emptied a Window that held turns, on a daemon that
\* has recorded queries, holds topics and remembers something
C20_Witness ==
    /\ last.op = "request" /\ last.cmd = "clear" /\ last.hadTurns
    /\ cm.window.turns = << >> /\ cm.window.currentTokens = 0
    /\ cm.turnCount > 0
    /\ cm.topics.topics # << >>
    /\ cm.memory.store # EmptyStore

\* the topics of store tp whose name is name, ignoring case
Matches(tp, name) ==
    {i \in 1..Len(tp.topics) : toLowerCase(tp.topics[i].name) = toLowerCase(name)}

Listening == {p \in Starts : host.pc[p] = "listening"}

\* C22: under any interleaving of daemon starts at most one daemon process
\* ends up listening and serving, and a daemon that finds the socket and the
\* PID file of a live daemon exits without serving.  (Violated: the checks
\* of start() and its removal of the socket file are separate steps, so a
\* second daemon can remove the socket file the first one is listening on
\* and bind the path again.)
C22_AtMostOneDaemon == Cardinality(Listening) <= 1

\* C23: an extraction pass that fails (its backend call throws, its output
\* is blank, is not JSON, or is JSON that yields nothing to merge) is
\* swallowed: the Memory store and its file are as before the pass, nothing
\* is written to any client and no state of a query in flight changes, the
\* daemon stays alive; and the query that started the pass has ended with its
\* done frame.
C23_ExtractionSwallowed ==
    /\ [](/\ (last.op = "extract" /\ last.outcome \in ExtractFailures)
                => (cm.memory = last.before /\ last.frames = << >> /\ alive)
          /\ (last.op = "query" /\ last.extract /\ last.open)
                => (/\ last.outcome \in {"success", "failed"}
                    /\ last.frames # << >>
                    /\ last.frames[Len(last.frames)] = "done"
                    /\ \A i \in 1..(Len(last.frames) - 1) : last.frames[i] # "done"
                    /\ alive /\ ~queryInProgress))
    /\ [][(last'.op = "extract" /\ last'.outcome \in ExtractFailures
           /\ extracting' # extracting)
            => (/\ inflight' = inflight /\ socks' = socks
                /\ queryInProgress' = queryInProgress
                /\ cm' = cm /\ alive')]_vars

\* C23 witness: a pass started by a query with a long answer ended with
\* output that is not JSON, on a daemon that remembers something, while the
\* next query was in flight
C23_Witness ==
    /\ last.op = "extract" /\ last.outcome = "parseError"
    /\ cm.memory.store # EmptyStore /\ cm.memory = last.before
    /\ inflight # {} /\ alive

\* the dispatch in progress is that of a query that Ctrl+C cancelled
Cancelled == shell.current # None /\ shell.current[1].cancelled

\* C24: after Ctrl+C during an AI query (no child process running), the
\* dispatch of the cancelled query completes: the queue of the shell goes on
\* to the commands entered afterwards.
C24_CancelReturns == Cancelled ~> ~Cancelled

\* prefix order on sequences
IsPrefix(s, t) == Len(s) <= Len(t) /\ s = SubSeq(t, 1, Len(s))

\* C25: the dispatches start in the order the lines were entered, one at a
\* time (each starts after the one before has completed), and when input
\* closes with commands queued, each of them runs before the shell prints
\* Bye. and exits: the shell does not come to rest, or end, with commands
\* that did not run.
C25_OneAtATime ==
    /\ IsPrefix(shell.started, shell.entered)
    /\ IsPrefix(shell.finished, shell.started)
    /\ Len(shell.started) <= Len(shell.finished) + 1
    /\ shell.exited = "bye" => shell.finished = shell.entered
    /\ NothingPending => shell.exited = "bye" /\ shell.cmdQueue = << >>

\* C26: the ring buffer holds at most 5 entries and the command context built
\* from it is at most 4000 characters long, whatever the buffer holds.
C26_ContextBound ==
    /\ Len(shell.outputBuffer) <= MAX_OUTPUT_ENTRIES
    /\ shell.context.defined => RLen(shell.context.text) <= MAX_CONTEXT_CHARS

\* the cost of the character class of code point c, in twentieths of a token
ClassCost(c) ==
    IF c > 65535 THEN 30
    ELSE IF isHangul(c) \/ isCJK(c) THEN 30
    ELSE IF isKana(c) THEN 24
    ELSE IF isAsciiAlnum(c) \/ isWhitespace(c) THEN 5
    ELSE IF c \in CODE_PUNCT THEN 10
    ELSE 30

\* the sum of the class costs of the characters of text from index i on, a
\* surrogate pair being one character
RECURSIVE TotalCost(_, _)
TotalCost(text, i) ==
    IF i > Len(text) THEN 0
    ELSE LET c == codePointAt(text, i)
         IN  ClassCost(c) + TotalCost(text, IF c > 65535 THEN i + 2 ELSE i + 1)

\* C27: the estimate of a text is the ceiling of the sum of the class costs
\* of its characters (a run of n letters and digits, or of n whitespace
\* characters, costs n/4); the estimate of "" is 0, of "aaaa" 1 and of one
\* Hangul syllable 2.
C27_CeilingOfCosts ==
    /\ last.estimate = (TotalCost(last.text, 1) + 19) \div 20
    /\ estimateTokens(T_empty) = 0
    /\ estimateTokens(<<97, 97, 97, 97>>) = 1
    /\ estimateTokens(T_ga) = 2

\* every topic of the store carries the estimator's cost of its summary
CostsFresh(tp) ==
    \A i \in 1..Len(tp.topics) :
        tp.topics[i].tokens = estimateTokens(tp.topics[i].summary)

\* the file holds a list of topics, one of them with a cost that is not the
\* estimator's cost of its summary
CostDiffers(file) ==
    /\ file.exists /\ file.shape = "list"
    /\ \A i \in 1..Len(file.topics) : file.topics[i].summary # Undefined
    /\ \E i \in 1..Len(file.topics) :
          file.topics[i].tokens # estimateTokens(file.topics[i].summary)

RECURSIVE IsSubsequence(_, _)
IsSubsequence(s, t) ==
    IF s = << >> THEN TRUE
    ELSE IF t = << >> THEN FALSE
    ELSE IF Head(s) = Head(t) THEN IsSubsequence(Tail(s), Tail(t))
    ELSE IsSubsequence(s, Tail(t))

HasSection(tag) == \E i \in 1..Len(last.sections) : last.sections[i] = tag

MemoryStoreEmpty(m) ==
    /\ Len(m.store.project) = 0 /\ Len(m.store.conventions) = 0
    /\ Len(m.store.decisions) = 0 /\ Len(m.store.recentWork) = 0

\* C29: the prompt a build() returns has the summary section exactly when
\* the build reports needsNewSession and the Window, after trimming, holds a
\* pair; its sections are in the order Memory, Topics, Shell, summary, with
\* the Shell section always there and the Memory and the Topics section
\* there iff the store is not empty; a build that evicts nothing and comes
\* right after a build that returned has no summary section.
C29_SummarySection ==
    (last.op = "build" /\ ~last.threw) =>
        /\ HasSection("Summary") <=>
               (last.needsNewSession /\ Window_count(cm.window) > 0)
        /\ IsSubsequence(last.sections, <<"Memory", "Topics", "Shell", "Summary">>)
        /\ HasSection("Shell")
        /\ HasSection("Memory") <=> ~MemoryStoreEmpty(cm.memory)
        /\ HasSection("Topics") <=> Topic_count(cm.topics) > 0
        /\ (last.prev.op = "build" /\ ~last.prev.threw /\ last.evicted = << >>)
               => ~HasSection("Summary")

\* C29 witness: a build returned a prompt with all four sections
C29_Witness ==
    /\ last.op = "build" /\ ~last.threw
    /\ last.sections = <<"Memory", "Topics", "Shell", "Summary">>

\* the sum of the stored costs of the turns from index i on
RECURSIVE CostFrom(_, _)
CostFrom(turns, i) ==
    IF i > Len(turns) THEN 0 ELSE turns[i].tokens + CostFrom(turns, i + 1)

\* C30: trimIfNeeded() removes whole pairs from the old end: the evicted
\* turns followed by the remaining turns are the turns before the call; a
\* pair is removed exactly while the cost is over the budget and more than
\* one pair is left, so that the most recent pair stays even when it alone
\* is over the budget.
C30_EvictsOldestPairs ==
    last.op = "trimIfNeeded" =>
        LET pre == last.preTurns
            evicted == last.evicted
            w == cm.window
        IN  /\ evicted \o w.turns = pre
            /\ Len(evicted) % 2 = 0
            /\ Len(pre) >= 2 => Len(w.turns) >= 2
            /\ \A k \in 0..(Len(evicted) \div 2 - 1) :
                   /\ CostFrom(pre, 2 * k + 1) > w.maxTokens
                   /\ Len(pre) - 2 * k > 2
            /\ ~(CostFrom(w.turns, 1) > w.maxTokens /\ Len(w.turns) > 2)

\* C30 witness: a call evicted two pairs or more and the pair it left is
\* alone over the budget
C30_Witness ==
    /\ last.op = "trimIfNeeded"
    /\ Len(last.evicted) >= 4
    /\ Len(cm.window.turns) = 2
    /\ CostFrom(cm.window.turns, 1) > cm.window.maxTokens

\* the summary that covers every pair of the turns: one "Q: ... -> A: ..."
\* fragment per pair, in the order of the pairs
PairsSummary(turns) ==
    Join([k \in 1..(Len(turns) \div 2) |->
             S_Q \o ReplaceNl(Slice(turns[2 * k - 1].content, 60)) \o S_toA
             \o ReplaceNl(Slice(turns[2 * k].content, 80)) \o S_dots],
         S_bar)

\* the step is a call of the method op
Calls(op) == last'.op = op /\ calls' = calls + 1

\* what a compact() that returned has done to a Window that held turns
CompactMoved ==
    LET old == cm.topics.topics
        new == cm'.topics.topics
        n == Len(new)
    IN  /\ cm'.window.turns = << >>
        /\ cm'.window.currentTokens = 0
        /\ n = Min(Len(old) + 1, MAX_TOPICS)
        /\ SubSeq(new, 1, n - 1) = LastN(old, n - 1)
        /\ new[n].name = S_compactDash \o Digits(clock)
        /\ Len(cm.window.turns) % 2 = 0
        /\ new[n].summary = PairsSummary(cm.window.turns)
        /\ cm'.memory = cm.memory
        /\ cm'.turnCount = cm.turnCount

isDash(c) == c = 45
notDash(c) == ~isDash(c)

\* name is made of words of the text joined by dashes
AutoNamed(name, text) ==
    /\ Len(name) > 0 /\ notDash(name[1]) /\ notDash(name[Len(name)])
    /\ IsSubsequence(SelectSeq(name, notDash), text)

\* what a switchTopic() that returned has done to a Window that held turns
SwitchSaved ==
    LET old == cm.topics.topics
        new == cm'.topics.topics
        n == Len(new)
    IN  /\ n = Min(Len(old) + 1, MAX_TOPICS)
        /\ SubSeq(new, 1, n - 1) = LastN(old, n - 1)
        /\ new[n].summary = PairsSummary(cm.window.turns)
        /\ \/ new[n].name = S_topicDash \o Digits(clock)
           \/ AutoNamed(new[n].name, cm.window.turns[1].content)
        /\ cm'.window.turns = << >>
        /\ cm'.window.currentTokens = 0
        /\ last'.savedTopic = Some(new[n].name)

C33_MemoNeverStale ==
    /\ last.op = "buildPrompt" =>
           last.prompt = Some(IF Len(cm.topics.topics) = 0 THEN S_noTopics
                              ELSE Topic_render(cm.topics.topics))
    /\ cm.topics.version >= last.preVersion

\* the number of newline bytes among the bytes
RECURSIVE Newlines(_)
Newlines(bytes) ==
    IF bytes = << >> THEN 0
    ELSE (IF Head(bytes) = 10 THEN 1 ELSE 0) + Newlines(Tail(bytes))

\* C34: however the stream cuts the written frames into data chunks, the
\* messages the reader has parsed are the messages whose frames have been
\* delivered completely, each once and in the order they were written, and
\* the remainder the reader carries holds no newline.
C34_ChunkingIndependent ==
    /\ shell.received = SubSeq(shell.sent, 1, Len(shell.sent) - Newlines(shell.wire))
    /\ \A i \in 1..Len(shell.buffer) : shell.buffer[i] # 10

\* C35: in every state of the Window the running total estimateTokens()
\* returns is the sum of the stored costs of the turns it holds, and 0 when
\* it holds none, after any sequence of addTurn, trimIfNeeded and clear.
C35_TotalIsSumOfCosts ==
    /\ Window_estimateTokens(cm.window) = CostFrom(cm.window.turns, 1)
    /\ Window_isEmpty(cm.window) => Window_estimateTokens(cm.window) = 0

\* C35 witness: a trimIfNeeded() has evicted turns of a Window that was
\* cleared and filled again, and the turns it left have a positive cost
C35_Witness ==
    /\ last.op = "trimIfNeeded"
    /\ Len(last.evicted) >= 2
    /\ removed > Len(last.evicted)
    /\ Len(cm.window.turns) >= 2
    /\ Window_estimateTokens(cm.window) > 0

\* C36: every accepted query releases the single-flight slot in the end:
\* whatever its outcome (success, backend error, cancellation, an exception
\* of build() before the backend call), queryInProgress returns to false
\* and activeAbort to null.
C36_SlotReleased ==
    queryInProgress ~> (~queryInProgress /\ activeAbort = None)

\* C37: the dirty flag is used up only by a prompt of a query that went
\* through: the build() of a query that is accepted right after a query
\* that threw or was cancelled, and whose own build() had reported
\* needsNewSession, reports needsNewSession again, and its prompt carries
\* the summary of the recent conversation when the Window holds a pair.
C37_DirtySurvivesFailure ==
    (last.op = "query" /\ last.outcome = "accepted" /\ last.afterLost) =>
        /\ last.needsNew
        /\ Window_count(cm.window) > 0 => includes(last.prompt, S_hSummary)

\* C38: a query that was in flight when a forget command completed does not
\* add its turn to the cleared Window: when its stream has ended, the
\* Window is still empty.
C38_ForgetStaysEmpty ==
    (last.op = "query" /\ last.outcome \in {"success", "failed"} /\ last.forgotten) =>
        cm.window.turns = << >>

\* C39: a daemon process whose listen fails because the socket path is in
\* use by a listening daemon does not delete that daemon's socket file, does
\* not delete the PID file while it holds that daemon's pid, and has not
\* written its own pid over the PID file; one that exits on the PID check
\* changes no file.
C39_FailedStartHarmless ==
    [][\A p \in Starts :
          /\ (host.pc[p] = "shutdownSocket" /\ host'.pc[p] = "shutdownPid")
                 => host.sock \notin Listening
          /\ (host.pc[p] = "shutdownPid" /\ host'.pc[p] = "exited")
                 => host.pid \notin Listening
          /\ (host.pc[p] = "listen" /\ host'.pc[p] = "shutdownSocket"
                 /\ host.sock \in Listening)
                 => host.pid # p
          /\ (host.pc[p] = "readPid" /\ host'.pc[p] = "refused")
                 => host'.sock = host.sock /\ host'.pid = host.pid]_vars

\* C40: the corrected command of a mistyped line is run only after the
\* "did you mean" prompt of that line was answered with a line of input,
\* and the answer was Y or Enter: never without an answer (as when the input
\* has closed), and not after the answer n.
C40_CorrectedRunsOnlyWhenConfirmed ==
    \A n \in last.ran : \E choice \in {"y", ""} : <<n, choice>> \in last.answers

=============================================================================
